---- MODULE Spec2Model ----
(***************************************************************************)
(* devctl (src/utils/dev/devctl.py): the development controller of the     *)
(* Spot Analyzer web server.  The model follows the process-lifecycle      *)
(* commands (start, stop, kill, restart, status, build, clean) statement   *)
(* by statement.  One controller step is one interaction with the host     *)
(* (a read or write of the PID file, a query of the process table, a       *)
(* signal, a sleep); between any two steps a process of the host may exit. *)
(* The logs command (file selection, view, time window, tail) is modelled   *)
(* over a log directory of JSON-lines files that a writer appends to.       *)
(***************************************************************************)
EXTENDS Integers, Sequences, FiniteSets, TLC

\* ------------------------------------------------------------------ bounds
\* PIDs the host hands out: 1..MaxPid (a freed PID may be handed out again).
MaxPid == 2

\* ------------------------------------------------------- program constants
DEFAULT_PORT == 8000
\* A second port, the one the command-line examples use (devctl stop -p 8080).
OtherPort == 8080
\* range(10) of the graceful-stop polling loops.
RetryBudget == 10
\* Python's None for an Optional[int] PID, and for args.port when -p is absent.
NoPid == 0
NoPort == 0

Pids == 1..MaxPid
Ports == {DEFAULT_PORT, OtherPort}
Platforms == {"Windows", "Posix"}

\* One controller invocation at a time in Spec.
Invocations == {1}

VARIABLES
    platform,   \* platform.system(), fixed for a run
    procs,      \* the host's process table: PID -> image, listening port, state
    pidfile,    \* PID_FILE: NoPid when the file does not exist, else its content
    exe,        \* WEB_EXE.exists()
    ctl,        \* per invocation: position in the command and its locals
    probe,      \* the last direct call of a platform access function
    logdir,     \* LOGS_DIR.exists()
    logs,       \* the files of LOGS_DIR: name -> lines written so far
    mru,        \* the names of logs, least recently modified first
    lg          \* the logs command: position and locals

hostvars == <<platform, procs, pidfile, exe, ctl>>
logvars == <<logdir, logs, mru, lg>>
vars == <<platform, procs, pidfile, exe, ctl, probe, logdir, logs, mru, lg>>

\* mine: the process belongs to the user who runs the controller (a signal to
\* another user's process is refused with EPERM on a POSIX host).
NoProc == [image |-> "none", port |-> NoPort, defunct |-> FALSE, mine |-> TRUE]
ServerProc(port) == [image |-> "spot-web", port |-> port, defunct |-> FALSE, mine |-> TRUE]
ForeignProc(port) == [image |-> "other", port |-> port, defunct |-> FALSE, mine |-> TRUE]
\* A program of another user (a system daemon).
OthersProc(port) == [image |-> "other", port |-> port, defunct |-> FALSE, mine |-> FALSE]
\* A server that has exited and whose parent has not waited for it: it keeps its
\* PID and its name, and holds no socket.
Defunct == [image |-> "spot-web", port |-> NoPort, defunct |-> TRUE, mine |-> TRUE]

\* The process runs: the table holds it and it has not exited.
Alive(table, pid) ==
    pid \in Pids /\ table[pid].image # "none" /\ ~table[pid].defunct

\* Popen's child, while the controller that started it is still running: the
\* controller never waits for it (no poll, wait or communicate in cmd_start), so
\* on a POSIX host it stays in the table after it has exited.  On Windows an
\* exited process is not listed.
HasWaitingParent(pid) ==
    platform = "Posix"
      /\ \E i \in DOMAIN ctl : ctl[i].pc # "done" /\ ctl[i].spawned = pid

\* The table after process pid has ended.
Ended(table, pid) ==
    [table EXCEPT ![pid] = IF HasWaitingParent(pid) THEN Defunct ELSE NoProc]

\* The table after the controller that spawned pid has exited: init adopts the
\* child and reaps it if it is defunct.
Reaped(table, pid) ==
    IF pid \in Pids /\ table[pid].defunct
    THEN [table EXCEPT ![pid] = NoProc]
    ELSE table

Min(S) == CHOOSE x \in S : \A y \in S : x <= y

\* ------------------------------------------------- platform process access

\* The table holds a process with this PID (a defunct entry included).
Exists(table, pid) == pid \in Pids /\ table[pid].image # "none"

\* Lines 87-103.  Windows: tasklist /FI "PID eq pid" prints the PID's row exactly
\* when the table holds the PID.  POSIX: os.kill(pid, 0) succeeds when the table
\* holds the PID (a defunct entry included) and the process is the user's own;
\* it raises ProcessLookupError for no process and PermissionError for another
\* user's process, both of them OSError, and line 102 returns False for both.
is_process_running(table, pid) ==
    /\ Exists(table, pid)
    /\ (platform = "Posix" => table[pid].mine)

\* get_server_pid without the liveness check of lines 81-82.
get_server_pid_unchecked(file, table) == file

\* Lines 75-85: the PID of the record, if the file exists and the PID is alive.
get_server_pid(file, table) ==
    IF file # NoPid /\ is_process_running(table, file) THEN file ELSE NoPid

\* find_server_processes without the image filter: every live process.
find_server_processes_any(table) ==
    {p \in Pids : table[p].image # "none"}

\* Lines 105-131: the PIDs of the processes whose image is spot-web (pgrep
\* lists a defunct one by its name).
find_server_processes(table) ==
    {p \in Pids : table[p].image = "spot-web"}

\* Lines 133-156: the (first) PID that owns the port, or None (a defunct
\* process owns none).
find_pid_by_port(table, port) ==
    LET owners == {p \in Pids : table[p].image # "none" /\ table[p].port = port}
    IN  IF owners = {} THEN NoPid ELSE Min(owners)

\* Lines 166-181, the return value: taskkill's exit status is not looked at
\* (subprocess.run without check), os.kill raises ProcessLookupError for a PID
\* that does not exist and the except clause returns False.
kill_process_result(plat, table, pid) ==
    IF plat = "Windows" THEN TRUE ELSE is_process_running(table, pid)

\* Lines 166-181, the effect on the host: a forceful terminate (SIGKILL,
\* taskkill /F) removes the process; a graceful one (SIGTERM, taskkill) is a
\* request the process answers, or not, by exiting later (ProcExit).  Another
\* user's process is out of reach.
kill_process_effect(table, pid, force) ==
    IF force /\ Alive(table, pid) /\ table[pid].mine THEN Ended(table, pid) ELSE table

\* ------------------------------------------------------ invocation records

Signal(pid, force, ok) == [pid |-> pid, force |-> force, ok |-> ok]

Fresh(cmd, port, no_build, pc) ==
    [pc |-> pc, cmd |-> cmd, port |-> port, no_build |-> no_build,
     pid |-> NoPid,       \* local pid of cmd_start / cmd_stop / cmd_status
     kpid |-> NoPid,      \* local pid of cmd_kill
     read |-> NoPid,      \* what get_server_pid last read from the file
     n |-> 0,             \* iterations of the polling loop so far
     rc |-> -1,           \* exit code, once the command has returned
     stop_rc |-> -1,      \* cmd_stop's result inside cmd_restart (discarded)
     out |-> "none",      \* the status line cmd_status printed
     sent |-> <<>>,       \* calls of kill_process, in order
     msgs |-> {},         \* messages printed
     built |-> FALSE,     \* cmd_build ran
     spawned |-> NoPid,   \* process.pid of the Popen
     killed |-> FALSE,    \* local killed of cmd_kill
     found |-> {},        \* result of find_server_processes in cmd_kill
     todo |-> {}]         \* rest of the orphan loop

Idle == Fresh("none", NoPort, FALSE, "done")

\* return from cmd_start, cmd_status, cmd_build, cmd_clean
Return(c, v) == [c EXCEPT !.pc = "done", !.rc = v]

\* return from cmd_stop (or from the cmd_kill it ends in): cmd_restart drops
\* the value, sleeps and goes on with cmd_start (lines 366-368).
ReturnStop(c, v) ==
    IF c.cmd = "restart"
    THEN [c EXCEPT !.pc = "restart_sleep", !.stop_rc = v]
    ELSE Return(c, v)

Say(c, m) == [c EXCEPT !.msgs = @ \cup {m}]

\* A step of invocation i, which leaves it with record c.  No lifecycle command
\* touches the log directory.
Set(i, c) ==
    /\ ctl' = [ctl EXCEPT ![i] = c]
    /\ UNCHANGED <<probe, logdir, logs, mru, lg>>

\* ------------------------------------------------------------ the log files

\* Lines written to the files of the log directory, all files together.
MaxLines == 3
\* Files of the log directory.
MaxFiles == 2

\* type=int, default=50 of --lines (line 680) and `args.lines or 50` (line 502).
DefaultLines == 50
\* The time window the examples ask for (--hours 2).
WindowHours == 2

\* The names of the *.jsonl files of LOGS_DIR, numbered in the order in which
\* sorted() puts their paths.
LogNames == 1..MaxFiles
\* args.file is None
NoFile == 0

\* One line of a log file, as far as the readers look at it: whether json.loads
\* accepts it and yields an object ("object"), accepts it and yields another
\* value ("other": a number, a string, a list, null), or raises JSONDecodeError
\* ("invalid": free text, an empty line); and the level, component and
\* timestamp members of the object ("absent" when the object has no such
\* member).  timestamp: "t-1h" and "t-3h" are ISO-8601 instants with the UTC
\* designator Z, one and three hours before now; "naive" is an ISO-8601 instant
\* without a UTC offset; "garbage" is a string fromisoformat rejects.
Line(json, level, component, timestamp) ==
    [json |-> json, level |-> level, component |-> component, timestamp |-> timestamp]

LineKinds ==
    {Line("object", "INFO", "web", "t-1h"),
     Line("object", "ERROR", "web", "t-3h"),
     Line("object", "ERROR", "cli", "t-1h"),
     Line("object", "INFO", "cli", "garbage"),
     Line("object", "INFO", "web", "naive"),
     Line("object", "absent", "absent", "absent"),
     Line("other", "absent", "absent", "absent"),
     Line("invalid", "absent", "absent", "absent")}

\* Hours between the instant a timestamp names and now.
HoursAgo(timestamp) == IF timestamp = "t-1h" THEN 1 ELSE 3

\* A file of the log directory.  open: the writer has written the head of the
\* last line of lines and not yet its rest and its newline.
LogFile(lines, open) == [exists |-> TRUE, lines |-> lines, open |-> open]
NoLogFile == [exists |-> FALSE, lines |-> <<>>, open |-> FALSE]

SeqsUpTo(S, n) == UNION {[1..k -> S] : k \in 0..n}
Range(s) == {s[k] : k \in 1..Len(s)}
Max(S) == CHOOSE x \in S : \A y \in S : y <= x
NatMin(a, b) == IF a <= b THEN a ELSE b
NatMax(a, b) == IF a >= b THEN a ELSE b

\* The command line of devctl logs (lines 672-683).
LogArgs(file, tail, hours, lines, level, component, raw) ==
    [file |-> file, tail |-> tail, hours |-> hours, lines |-> lines,
     level |-> level, component |-> component, raw |-> raw]

NoArgs == LogArgs(NoFile, FALSE, 0, DefaultLines, "none", "none", FALSE)

\* What a reader passed to print_log_entry: a line, or the part of it that
\* readline returned ("whole", or "head" and "rest").
Item(line, part) == [line |-> line, part |-> part]

\* The logs command: position and locals.
LgIdle ==
    [pc |-> "done", args |-> NoArgs,
     file |-> NoFile,       \* log_file
     pos |-> 0,             \* tail: lines of the file that lie before f's offset
     mid |-> FALSE,         \* tail: f's offset lies behind the head of line pos+1
     start |-> 0,           \* tail: pos and mid after f.seek(0, 2)
     startmid |-> FALSE,
     emitted |-> <<>>,      \* calls of print_log_entry that printed, in order
     summary |-> FALSE,     \* the closing "Showed ..." line was printed
     shown |-> 0,           \* its first number
     total |-> 0,           \* its second number (view_logs only)
     crashed |-> "none",    \* the exception that left the command, if any
     err |-> "none",        \* the error message of cmd_logs
     rc |-> -1]

\* No log directory, no logs command.
NoLogs ==
    /\ logdir = FALSE
    /\ logs = [f \in LogNames |-> NoLogFile]
    /\ mru = <<>>
    /\ lg = LgIdle

\* A direct call of a platform access function and what it returned:
\* is_process_running(pid) its result; the other two are recorded with EXCEPT,
\* find_server_processes() its pids, find_pid_by_port(port) the PID it found,
\* get_server_pid() the PID it returned (found) for the content of the PID file
\* (record, and pid when the content is a PID) and whether the file was deleted
\* under it (gone).  tool is what became of the external tool the call ran,
\* raised the exception that left the call ("none" when it returned).
Probe(fn, pid, result) ==
    [fn |-> fn, pid |-> pid, result |-> result,
     tool |-> "ok", port |-> NoPort, pids |-> {}, found |-> NoPid, raised |-> "none",
     record |-> "absent", gone |-> FALSE]
NoProbe == Probe("none", NoPid, FALSE)

\* ------------------------------------------------------------------- Init

\* A clean checkout: no PID file, nothing built, no server process.  The host
\* may already run one unrelated program that listens on the second port.
Init ==
    /\ platform \in Platforms
    /\ procs \in {[p \in Pids |-> NoProc],
                  [p \in Pids |-> IF p = 1 THEN ForeignProc(OtherPort) ELSE NoProc]}
    /\ pidfile = NoPid
    /\ exe = FALSE
    /\ ctl = [i \in Invocations |-> Idle]
    /\ probe = NoProbe
    /\ NoLogs

\* ------------------------------------------------------ main (lines 619-704)

\* The argument parser: start and restart always carry a port (default
\* DEFAULT_PORT, lines 649 and 666); stop, kill and status carry one only with -p.
main(i) ==
    /\ ctl[i].pc = "done"
    /\ \/ \E port \in Ports, nb \in BOOLEAN :
            \/ Set(i, Fresh("start", port, nb, "start"))
            \/ Set(i, Fresh("restart", port, nb, "stop"))
       \/ \E port \in {NoPort} \cup Ports :
            \/ Set(i, Fresh("stop", port, FALSE, "stop"))
            \/ Set(i, Fresh("kill", port, FALSE, "kill"))
            \/ Set(i, Fresh("status", port, FALSE, "status"))
       \/ Set(i, Fresh("build", NoPort, FALSE, "build"))
       \/ Set(i, Fresh("clean", NoPort, FALSE, "clean"))
    /\ UNCHANGED <<platform, procs, pidfile, exe>>

\* ------------------------------------------------- cmd_build (lines 183-201)

\* cmd_build whose failure cmd_start does not look at (lines 215-217 without the
\* return).
cmd_build_ignored(i) ==
    LET c == ctl[i] IN
    /\ c.pc \in {"build", "start_build"}
    /\ \E ok \in BOOLEAN :
        LET b == Say([c EXCEPT !.built = TRUE],
                     IF ok THEN "Build successful!" ELSE "Build failed!") IN
        /\ exe' = (exe \/ ok)
        /\ IF c.pc = "build"
           THEN Set(i, Return(b, IF ok THEN 0 ELSE 1))
           ELSE Set(i, [b EXCEPT !.pc = "start_exe"])
    /\ UNCHANGED <<platform, procs, pidfile>>

\* go build either writes WEB_EXE and returns 0, or fails and leaves what was
\* there.  Called as a command and from cmd_start (lines 215-217).
cmd_build(i) ==
    LET c == ctl[i] IN
    /\ c.pc \in {"build", "start_build"}
    /\ \E ok \in BOOLEAN :
        LET b == [c EXCEPT !.built = TRUE] IN
        /\ exe' = (exe \/ ok)
        /\ IF ok
           THEN IF c.pc = "build"
                THEN Set(i, Return(Say(b, "Build successful!"), 0))
                ELSE Set(i, [Say(b, "Build successful!") EXCEPT !.pc = "start_exe"])
           ELSE Set(i, Return(Say(b, "Build failed!"), 1))
    /\ UNCHANGED <<platform, procs, pidfile>>

\* ------------------------------------------------- cmd_start (lines 203-267)

\* cmd_start_check without the return of line 212: it warns and goes on.
cmd_start_check_noreturn(i) ==
    LET c == ctl[i]
        pid == get_server_pid(pidfile, procs)
        d == [c EXCEPT !.pid = pid, !.read = pidfile]
        e == IF pid # NoPid THEN Say(d, "Server already running") ELSE d
    IN
    /\ c.pc = "start"
    /\ Set(i, [e EXCEPT !.pc = IF c.no_build THEN "start_exe" ELSE "start_build"])
    /\ UNCHANGED <<platform, procs, pidfile, exe>>

\* cmd_start_check that also refuses when a spot-web process runs untracked.
cmd_start_check_orphans(i) ==
    LET c == ctl[i]
        pid == get_server_pid(pidfile, procs)
        d == [c EXCEPT !.pid = pid, !.read = pidfile]
    IN
    /\ c.pc = "start"
    /\ IF pid # NoPid \/ find_server_processes(procs) # {}
       THEN Set(i, Return(Say(d, "Server already running"), 1))
       ELSE Set(i, [d EXCEPT !.pc = IF c.no_build THEN "start_exe" ELSE "start_build"])
    /\ UNCHANGED <<platform, procs, pidfile, exe>>

\* Lines 207-217: refuse when the record names a live process.
cmd_start_check(i) ==
    LET c == ctl[i]
        pid == get_server_pid(pidfile, procs)
        d == [c EXCEPT !.pid = pid, !.read = pidfile]
    IN
    /\ c.pc = "start"
    /\ IF pid # NoPid
       THEN Set(i, Return(Say(d, "Server already running"), 1))
       ELSE Set(i, [d EXCEPT !.pc = IF c.no_build THEN "start_exe" ELSE "start_build"])
    /\ UNCHANGED <<platform, procs, pidfile, exe>>

\* Lines 219-246: the executable must exist; Popen starts the server detached.
\* The server listens on the port unless another process holds it.
cmd_start_spawn(i) ==
    LET c == ctl[i] IN
    /\ c.pc = "start_exe"
    /\ IF ~exe
       THEN /\ Set(i, Return(Say(c, "Web server executable not found"), 1))
            /\ UNCHANGED procs
       ELSE \E newpid \in Pids :
            /\ procs[newpid].image = "none"
            /\ procs' = [procs EXCEPT ![newpid] =
                   ServerProc(IF find_pid_by_port(procs, c.port) = NoPid
                              THEN c.port ELSE NoPort)]
            /\ Set(i, [c EXCEPT !.spawned = newpid, !.pc = "start_write"])
    /\ UNCHANGED <<platform, pidfile, exe>>

\* cmd_start_write without the write of line 249.
cmd_start_write_skipped(i) ==
    LET c == ctl[i] IN
    /\ c.pc = "start_write"
    /\ Set(i, [c EXCEPT !.pc = "start_recheck"])
    /\ UNCHANGED <<platform, procs, pidfile, exe>>

\* Line 249: PID_FILE.write_text(str(process.pid)); then time.sleep(1).
cmd_start_write(i) ==
    LET c == ctl[i] IN
    /\ c.pc = "start_write"
    /\ pidfile' = c.spawned
    /\ Set(i, [c EXCEPT !.pc = "start_recheck"])
    /\ UNCHANGED <<platform, procs, exe>>

\* Lines 254-267: after the sleep, success if is_process_running finds the
\* process, else the record is removed and the start has failed.  The command
\* returns and the controller exits: a defunct child is reaped.
cmd_start_recheck(i) ==
    LET c == ctl[i] IN
    /\ c.pc = "start_recheck"
    /\ IF is_process_running(procs, c.spawned)
       THEN /\ Set(i, Return(Say(c, "Server started"), 0))
            /\ UNCHANGED pidfile
       ELSE /\ Set(i, Return(Say(c, "Server failed to start"), 1))
            /\ pidfile' = NoPid
    /\ procs' = Reaped(procs, c.spawned)
    /\ UNCHANGED <<platform, exe>>

\* ------------------------------------------------ cmd_status (lines 370-422)

\* cmd_status_check that removes a record it finds stale.
cmd_status_check_cleans(i) ==
    LET c == ctl[i] IN
    /\ c.pc = "status"
    /\ IF c.port # NoPort
       THEN LET pid == find_pid_by_port(procs, c.port) IN
            /\ Set(i, Return([c EXCEPT !.pid = pid,
                                       !.out = IF pid # NoPid THEN "PortInUse" ELSE "PortFree"], 0))
            /\ UNCHANGED pidfile
       ELSE LET pid == get_server_pid(pidfile, procs)
                d == [c EXCEPT !.pid = pid, !.read = pidfile]
            IN  IF pid # NoPid
                THEN Set(i, Return([d EXCEPT !.out = "Running"], 0)) /\ UNCHANGED pidfile
                ELSE Set(i, [d EXCEPT !.pc = "status_find"]) /\ pidfile' = NoPid
    /\ UNCHANGED <<platform, procs, exe>>

\* Lines 372-392: with a port, only the port is looked at; without, the record.
cmd_status_check(i) ==
    LET c == ctl[i] IN
    /\ c.pc = "status"
    /\ IF c.port # NoPort
       THEN LET pid == find_pid_by_port(procs, c.port) IN
            Set(i, Return([c EXCEPT !.pid = pid,
                                    !.out = IF pid # NoPid THEN "PortInUse" ELSE "PortFree"], 0))
       ELSE LET pid == get_server_pid(pidfile, procs)
                d == [c EXCEPT !.pid = pid, !.read = pidfile]
            IN  IF pid # NoPid
                THEN Set(i, Return([d EXCEPT !.out = "Running"], 0))
                ELSE Set(i, [d EXCEPT !.pc = "status_find"])
    /\ UNCHANGED <<platform, procs, pidfile, exe>>

\* Lines 393-399: no live record; orphans if any spot-web process, else stopped.
cmd_status_find(i) ==
    LET c == ctl[i]
        pids == find_server_processes(procs)
    IN
    /\ c.pc = "status_find"
    /\ Set(i, Return([c EXCEPT !.found = pids,
                               !.out = IF pids # {} THEN "Orphan" ELSE "Stopped"], 0))
    /\ UNCHANGED <<platform, procs, pidfile, exe>>

\* ------------------------------------------------- cmd_clean (lines 581-605)

\* The build artifacts and the PID file are removed; no process is touched.
\* (The unlink of the executable is taken to succeed while a server runs from
\* it, as on a POSIX host.)
cmd_clean(i) ==
    LET c == ctl[i] IN
    /\ c.pc = "clean"
    /\ exe' = FALSE
    /\ pidfile' = NoPid
    /\ Set(i, Return(Say(c, "Cleanup complete"), 0))
    /\ UNCHANGED <<platform, procs>>

\* -------------------------------------------------- cmd_stop (lines 269-319)

\* One call of kill_process(pid, force) by invocation record c: the record with
\* the call appended to sent.
Called(c, pid, force) ==
    [c EXCEPT !.sent = Append(@, Signal(pid, force, kill_process_result(platform, procs, pid)))]

\* cmd_stop_resolve that reports nothing to stop as a failure.
cmd_stop_resolve_fails(i) ==
    LET c == ctl[i] IN
    /\ c.pc = "stop"
    /\ IF c.port # NoPort
       THEN LET pid == find_pid_by_port(procs, c.port) IN
            IF pid = NoPid
            THEN Set(i, ReturnStop(Say(c, "No process found on port"), 1))
            ELSE Set(i, [c EXCEPT !.pid = pid, !.pc = "stop_term"])
       ELSE LET pid == get_server_pid(pidfile, procs)
                d == [c EXCEPT !.pid = pid, !.read = pidfile]
            IN  IF pid = NoPid
                THEN Set(i, ReturnStop(Say(d, "Server is not running"), 1))
                ELSE Set(i, [d EXCEPT !.pc = "stop_term"])
    /\ UNCHANGED <<platform, procs, pidfile, exe>>

\* cmd_stop_resolve that goes by the record whenever restart calls it.
cmd_stop_resolve_by_record(i) ==
    LET c == ctl[i] IN
    /\ c.pc = "stop"
    /\ IF c.port # NoPort /\ c.cmd # "restart"
       THEN LET pid == find_pid_by_port(procs, c.port) IN
            IF pid = NoPid
            THEN Set(i, ReturnStop(Say(c, "No process found on port"), 0))
            ELSE Set(i, [c EXCEPT !.pid = pid, !.pc = "stop_term"])
       ELSE LET pid == get_server_pid(pidfile, procs)
                d == [c EXCEPT !.pid = pid, !.read = pidfile]
            IN  IF pid = NoPid
                THEN Set(i, ReturnStop(Say(d, "Server is not running"), 0))
                ELSE Set(i, [d EXCEPT !.pc = "stop_term"])
    /\ UNCHANGED <<platform, procs, pidfile, exe>>

\* Lines 271-279 and 296-302: resolve the PID, by port or from the record; with
\* nothing resolved the command returns 0.
cmd_stop_resolve(i) ==
    LET c == ctl[i] IN
    /\ c.pc = "stop"
    /\ IF c.port # NoPort
       THEN LET pid == find_pid_by_port(procs, c.port) IN
            IF pid = NoPid
            THEN Set(i, ReturnStop(Say(c, "No process found on port"), 0))
            ELSE Set(i, [c EXCEPT !.pid = pid, !.pc = "stop_term"])
       ELSE LET pid == get_server_pid(pidfile, procs)
                d == [c EXCEPT !.pid = pid, !.read = pidfile]
            IN  IF pid = NoPid
                THEN Set(i, ReturnStop(Say(d, "Server is not running"), 0))
                ELSE Set(i, [d EXCEPT !.pc = "stop_term"])
    /\ UNCHANGED <<platform, procs, pidfile, exe>>

\* cmd_stop_term that signals the PID the record holds, whatever was resolved.
cmd_stop_term_record(i) ==
    LET c == ctl[i]
        d == Called(c, pidfile, FALSE)
    IN
    /\ c.pc = "stop_term"
    /\ procs' = kill_process_effect(procs, pidfile, FALSE)
    /\ IF kill_process_result(platform, procs, pidfile)
       THEN Set(i, [d EXCEPT !.pc = "stop_poll", !.n = 0])
       ELSE Set(i, ReturnStop(d, 1))
    /\ UNCHANGED <<platform, pidfile, exe>>

\* Lines 280 and 304 (and 293, 319): the graceful terminate; when kill_process
\* returns False the command returns 1.
cmd_stop_term(i) ==
    LET c == ctl[i]
        d == Called(c, c.pid, FALSE)
    IN
    /\ c.pc = "stop_term"
    /\ procs' = kill_process_effect(procs, c.pid, FALSE)
    /\ IF kill_process_result(platform, procs, c.pid)
       THEN Set(i, [d EXCEPT !.pc = "stop_poll", !.n = 0])
       ELSE Set(i, ReturnStop(d, 1))
    /\ UNCHANGED <<platform, pidfile, exe>>

\* cmd_stop_poll with a loop of one iteration: range(1) at lines 281 and 306.
cmd_stop_poll_once(i) ==
    LET c == ctl[i] IN
    /\ c.pc = "stop_poll"
    /\ IF ~is_process_running(procs, c.pid)
       THEN Set(i, [c EXCEPT !.pc = "stop_final"])
       ELSE Set(i, [c EXCEPT !.n = @ + 1, !.pc = "stop_final"])
    /\ UNCHANGED <<platform, procs, pidfile, exe>>

\* Lines 281-284 and 306-309: one iteration of the polling loop; break when
\* the process is gone, else sleep half a second; at most RetryBudget times.
cmd_stop_poll(i) ==
    LET c == ctl[i] IN
    /\ c.pc = "stop_poll"
    /\ IF ~is_process_running(procs, c.pid)
       THEN Set(i, [c EXCEPT !.pc = "stop_final"])
       ELSE Set(i, [c EXCEPT !.n = @ + 1,
                             !.pc = IF c.n + 1 < RetryBudget THEN "stop_poll" ELSE "stop_final"])
    /\ UNCHANGED <<platform, procs, pidfile, exe>>

\* cmd_stop_final without the unlink of line 313.
cmd_stop_final_keeps(i) ==
    LET c == ctl[i] IN
    /\ c.pc = "stop_final"
    /\ IF ~is_process_running(procs, c.pid)
       THEN Set(i, ReturnStop(Say(c, "Server stopped"), 0))
       ELSE Set(i, [Say(c, "Server didn't stop gracefully, force killing...")
                       EXCEPT !.pc = IF c.port # NoPort THEN "stop_force" ELSE "kill"])
    /\ UNCHANGED <<platform, procs, pidfile, exe>>

\* Lines 285-292 and 311-317: the check after the loop.  Gone: success (and,
\* without a port, the record is removed).  Still there: force.
cmd_stop_final(i) ==
    LET c == ctl[i] IN
    /\ c.pc = "stop_final"
    /\ IF ~is_process_running(procs, c.pid)
       THEN /\ Set(i, ReturnStop(Say(c, "Server stopped"), 0))
            /\ pidfile' = IF c.port # NoPort THEN pidfile ELSE NoPid
       ELSE /\ Set(i, [Say(c, "Server didn't stop gracefully, force killing...")
                          EXCEPT !.pc = IF c.port # NoPort THEN "stop_force" ELSE "kill"])
            /\ UNCHANGED pidfile
    /\ UNCHANGED <<platform, procs, exe>>

\* cmd_stop_force with kill_process's default mode (force=False) at line 290.
cmd_stop_force_graceful(i) ==
    LET c == ctl[i] IN
    /\ c.pc = "stop_force"
    /\ procs' = kill_process_effect(procs, c.pid, FALSE)
    /\ Set(i, ReturnStop(Say(Called(c, c.pid, FALSE), "Server on port killed"), 0))
    /\ UNCHANGED <<platform, pidfile, exe>>

\* Lines 290-292: with a port, the forceful terminate is sent from cmd_stop and
\* its result is not looked at.
cmd_stop_force(i) ==
    LET c == ctl[i] IN
    /\ c.pc = "stop_force"
    /\ procs' = kill_process_effect(procs, c.pid, TRUE)
    /\ Set(i, ReturnStop(Say(Called(c, c.pid, TRUE), "Server on port killed"), 0))
    /\ UNCHANGED <<platform, pidfile, exe>>

\* -------------------------------------------------- cmd_kill (lines 321-361)

\* Lines 323-339: with a port the PID comes from the port, else from the record.
cmd_kill_resolve(i) ==
    LET c == ctl[i] IN
    /\ c.pc = "kill"
    /\ IF c.port # NoPort
       THEN LET pid == find_pid_by_port(procs, c.port) IN
            IF pid = NoPid
            THEN Set(i, ReturnStop(Say(c, "No process found on port"), 0))
            ELSE Set(i, [c EXCEPT !.kpid = pid, !.pc = "kill_port"])
       ELSE LET pid == get_server_pid(pidfile, procs)
                d == [c EXCEPT !.kpid = pid, !.read = pidfile]
            IN  Set(i, [d EXCEPT !.pc = IF pid # NoPid THEN "kill_force" ELSE "kill_find"])
    /\ UNCHANGED <<platform, procs, pidfile, exe>>

\* Lines 330-336: with a port, the forceful terminate and return 0; neither
\* the orphan loop nor the unlink is reached.
cmd_kill_port(i) ==
    LET c == ctl[i]
        ok == kill_process_result(platform, procs, c.kpid)
        d == [Called(c, c.kpid, TRUE) EXCEPT !.killed = ok]
    IN
    /\ c.pc = "kill_port"
    /\ procs' = kill_process_effect(procs, c.kpid, TRUE)
    /\ Set(i, ReturnStop(IF ok THEN Say(d, "Process on port killed") ELSE d, 0))
    /\ UNCHANGED <<platform, pidfile, exe>>

\* cmd_kill_force with kill_process's default mode (force=False) at line 343.
cmd_kill_force_graceful(i) ==
    LET c == ctl[i]
        ok == kill_process_result(platform, procs, c.kpid)
    IN
    /\ c.pc = "kill_force"
    /\ procs' = kill_process_effect(procs, c.kpid, FALSE)
    /\ Set(i, [Called(c, c.kpid, FALSE) EXCEPT !.killed = ok, !.pc = "kill_find"])
    /\ UNCHANGED <<platform, pidfile, exe>>

\* Lines 341-344: the forceful terminate of the recorded process.
cmd_kill_force(i) ==
    LET c == ctl[i]
        ok == kill_process_result(platform, procs, c.kpid)
    IN
    /\ c.pc = "kill_force"
    /\ procs' = kill_process_effect(procs, c.kpid, TRUE)
    /\ Set(i, [Called(c, c.kpid, TRUE) EXCEPT !.killed = ok, !.pc = "kill_find"])
    /\ UNCHANGED <<platform, pidfile, exe>>

\* cmd_kill_find with the orphan loop under the `if pid:` of line 341.
cmd_kill_find_recorded(i) ==
    LET c == ctl[i]
        pids == find_server_processes(procs)
    IN
    /\ c.pc = "kill_find"
    /\ Set(i, [c EXCEPT !.found = pids,
                        !.todo = IF c.kpid # NoPid THEN pids \ {c.kpid} ELSE {},
                        !.pc = "kill_sweep"])
    /\ UNCHANGED <<platform, procs, pidfile, exe>>

\* Line 347: the spot-web processes, for the orphan loop.
cmd_kill_find(i) ==
    LET c == ctl[i]
        pids == find_server_processes(procs)
    IN
    /\ c.pc = "kill_find"
    /\ Set(i, [c EXCEPT !.found = pids, !.todo = pids \ {c.kpid}, !.pc = "kill_sweep"])
    /\ UNCHANGED <<platform, procs, pidfile, exe>>

\* Lines 348-352: one iteration of the orphan loop, in the order of the list.
cmd_kill_sweep(i) ==
    LET c == ctl[i]
        p == Min(c.todo)
    IN
    /\ c.pc = "kill_sweep"
    /\ c.todo # {}
    /\ procs' = kill_process_effect(procs, p, TRUE)
    /\ Set(i, [Called(c, p, TRUE) EXCEPT !.killed = TRUE, !.todo = @ \ {p}])
    /\ UNCHANGED <<platform, pidfile, exe>>

\* cmd_kill_unlink that returns 1 when nothing was killed.
cmd_kill_unlink_fails(i) ==
    LET c == ctl[i] IN
    /\ c.pc = "kill_sweep"
    /\ c.todo = {}
    /\ pidfile' = NoPid
    /\ Set(i, ReturnStop(Say(c, IF c.killed THEN "Server killed"
                                           ELSE "No server processes found"),
                         IF c.killed THEN 0 ELSE 1))
    /\ UNCHANGED <<platform, procs, exe>>

\* cmd_kill_unlink with the unlink under the `if killed:` of line 356.
cmd_kill_unlink_if_killed(i) ==
    LET c == ctl[i] IN
    /\ c.pc = "kill_sweep"
    /\ c.todo = {}
    /\ pidfile' = IF c.killed THEN NoPid ELSE pidfile
    /\ Set(i, ReturnStop(Say(c, IF c.killed THEN "Server killed"
                                           ELSE "No server processes found"), 0))
    /\ UNCHANGED <<platform, procs, exe>>

\* Lines 354-361: after the loop the record is removed and 0 returned.
cmd_kill_unlink(i) ==
    LET c == ctl[i] IN
    /\ c.pc = "kill_sweep"
    /\ c.todo = {}
    /\ pidfile' = NoPid
    /\ Set(i, ReturnStop(Say(c, IF c.killed THEN "Server killed"
                                           ELSE "No server processes found"), 0))
    /\ UNCHANGED <<platform, procs, exe>>

\* ----------------------------------------------- cmd_restart (lines 363-368)

\* Line 367: time.sleep(1) between cmd_stop and cmd_start.
cmd_restart_sleep(i) ==
    LET c == ctl[i] IN
    /\ c.pc = "restart_sleep"
    /\ Set(i, [c EXCEPT !.pc = "start"])
    /\ UNCHANGED <<platform, procs, pidfile, exe>>

\* ---------------------------------------------------------------- the host

\* A process of the host exits (on its own, or as its answer to a graceful
\* terminate): the server and the controller run concurrently.
ProcExit(p) ==
    /\ Alive(procs, p)
    /\ procs' = Ended(procs, p)
    /\ UNCHANGED <<platform, pidfile, exe, ctl, probe, logdir, logs, mru, lg>>

Next ==
    \/ \E i \in DOMAIN ctl : main(i)
    \/ \E i \in DOMAIN ctl : cmd_build(i)
    \/ \E i \in DOMAIN ctl : cmd_start_check(i)
    \/ \E i \in DOMAIN ctl : cmd_start_spawn(i)
    \/ \E i \in DOMAIN ctl : cmd_start_write(i)
    \/ \E i \in DOMAIN ctl : cmd_start_recheck(i)
    \/ \E i \in DOMAIN ctl : cmd_status_check(i)
    \/ \E i \in DOMAIN ctl : cmd_status_find(i)
    \/ \E i \in DOMAIN ctl : cmd_clean(i)
    \/ \E i \in DOMAIN ctl : cmd_stop_resolve(i)
    \/ \E i \in DOMAIN ctl : cmd_stop_term(i)
    \/ \E i \in DOMAIN ctl : cmd_stop_poll(i)
    \/ \E i \in DOMAIN ctl : cmd_stop_final(i)
    \/ \E i \in DOMAIN ctl : cmd_stop_force(i)
    \/ \E i \in DOMAIN ctl : cmd_kill_resolve(i)
    \/ \E i \in DOMAIN ctl : cmd_kill_port(i)
    \/ \E i \in DOMAIN ctl : cmd_kill_force(i)
    \/ \E i \in DOMAIN ctl : cmd_kill_find(i)
    \/ \E i \in DOMAIN ctl : cmd_kill_sweep(i)
    \/ \E i \in DOMAIN ctl : cmd_kill_unlink(i)
    \/ \E i \in DOMAIN ctl : cmd_restart_sleep(i)
    \/ \E p \in Pids : ProcExit(p)

Spec == Init /\ [][Next]_vars

\* ------------------------------------------- platform process access, alone

\* What a PID of the host may be when a platform access function is called: the
\* host runs programs of other users too.
ProcKinds == {NoProc, ServerProc(DEFAULT_PORT), ForeignProc(OtherPort), OthersProc(OtherPort)}

\* Any host, no controller command under way.
InitAccess ==
    /\ platform \in Platforms
    /\ procs \in [Pids -> ProcKinds]
    /\ pidfile = NoPid
    /\ exe = FALSE
    /\ ctl = [i \in Invocations |-> Idle]
    /\ probe = NoProbe
    /\ NoLogs

\* What may become of an external tool run with subprocess.run (tasklist,
\* powershell, pgrep, lsof): "ok", it runs and prints its answer; "missing", the
\* program is not installed and subprocess.run raises FileNotFoundError;
\* "failed", it exits with an error status and an empty stdout (the status is
\* not looked at: no check=True); "garbage", its stdout is text that is no PID.
Tools == {"ok", "missing", "failed", "garbage"}

\* The exception classes that occur, and those among them that are OSError.
OSError == {"FileNotFoundError", "ProcessLookupError", "PermissionError"}
Exception == OSError \cup {"ValueError"}

\* How a block of code ends: it raises, or yields a value.
Raises(e, v) == [raised |-> e, value |-> v]
Yields(v) == [raised |-> "none", value |-> v]

\* try: block / except clause: fallback
Except(block, clause, fallback) ==
    IF block.raised \in clause THEN Yields(fallback) ELSE block

\* Lines 90-94 (Windows): tasklist, and `str(pid) in result.stdout`.
tasklist_pid(tool, table, pid) ==
    IF tool = "missing" THEN Raises("FileNotFoundError", FALSE)
    ELSE Yields(tool = "ok" /\ Exists(table, pid))

\* Lines 100-101 (POSIX): os.kill(pid, 0); return True.
os_kill_0(table, pid) ==
    IF ~Exists(table, pid) THEN Raises("ProcessLookupError", FALSE)
    ELSE IF ~table[pid].mine THEN Raises("PermissionError", FALSE)
    ELSE Yields(TRUE)

\* Lines 87-103, with the external tool as it may be.
is_process_running_with(tool, table, pid) ==
    IF platform = "Windows"
    THEN Except(tasklist_pid(tool, table, pid), Exception, FALSE)
    ELSE Except(os_kill_0(table, pid), OSError, FALSE)

\* Lines 109-119 and 122-127, the try blocks of find_server_processes.  Windows
\* skips every line of stdout that does not name spot-web.exe; POSIX takes
\* every non-empty line of stdout for a PID, and int() raises ValueError.
list_server_processes(tool, table) ==
    CASE tool = "missing" -> Raises("FileNotFoundError", {})
      [] tool = "failed" -> Yields({})
      [] tool = "garbage" -> IF platform = "Windows" THEN Yields({}) ELSE Raises("ValueError", {})
      [] OTHER -> Yields(find_server_processes(table))

\* Lines 105-131, with the external tool as it may be: `except Exception: pass`
\* and `return pids`.
find_server_processes_with(tool, table) ==
    Except(list_server_processes(tool, table), Exception, {})

\* Lines 135-143 and 146-153, the try blocks of find_pid_by_port: an empty
\* stdout falls through, anything else goes to int().
port_owner(tool, table, port) ==
    CASE tool = "missing" -> Raises("FileNotFoundError", NoPid)
      [] tool = "failed" -> Yields(NoPid)
      [] tool = "garbage" -> Raises("ValueError", NoPid)
      [] OTHER -> Yields(find_pid_by_port(table, port))

\* find_pid_by_port whose except clause names ValueError only.
find_pid_by_port_narrow(tool, table, port) ==
    Except(port_owner(tool, table, port), {"ValueError"}, NoPid)

\* Lines 133-156, with the external tool as it may be: `except Exception: pass`
\* and `return None`.
find_pid_by_port_with(tool, table, port) ==
    Except(port_owner(tool, table, port), Exception, NoPid)

\* is_process_running(pid), for a PID of the table or the PID after the last.
call_is_process_running(pid, tool) ==
    /\ LET r == is_process_running_with(tool, procs, pid)
       IN  probe' = [Probe("is_process_running", pid, r.value)
                       EXCEPT !.tool = tool, !.raised = r.raised]
    /\ UNCHANGED <<platform, procs, pidfile, exe, ctl, logdir, logs, mru, lg>>

\* find_server_processes()
call_find_server_processes(tool) ==
    /\ LET r == find_server_processes_with(tool, procs)
       IN  probe' = [Probe("find_server_processes", NoPid, FALSE)
                       EXCEPT !.tool = tool, !.pids = r.value, !.raised = r.raised]
    /\ UNCHANGED <<platform, procs, pidfile, exe, ctl, logdir, logs, mru, lg>>

\* find_pid_by_port(port)
call_find_pid_by_port(port, tool) ==
    /\ LET r == find_pid_by_port_with(tool, procs, port)
       IN  probe' = [Probe("find_pid_by_port", NoPid, FALSE)
                       EXCEPT !.tool = tool, !.port = port, !.found = r.value,
                              !.raised = r.raised]
    /\ UNCHANGED <<platform, procs, pidfile, exe, ctl, logdir, logs, mru, lg>>

\* What the PID file may be when get_server_pid looks at it: "absent"; "pid",
\* its content is a decimal integer; "garbage", its content is anything else
\* (empty, text, a fraction, bytes that are no UTF-8).
Records == {"absent", "pid", "garbage"}

\* Lines 77-82, the `if PID_FILE.exists():` and the try block under it.  gone:
\* the file is deleted between exists() and read_text(), which then raises
\* FileNotFoundError; int() raises ValueError for content that is no decimal
\* integer (and UnicodeDecodeError is a ValueError).  Without the return of
\* line 82 control falls through to `return None`.
read_record(record, pid, gone, table) ==
    IF record = "absent" THEN Yields(NoPid)
    ELSE IF gone THEN Raises("FileNotFoundError", NoPid)
    ELSE IF record = "garbage" THEN Raises("ValueError", NoPid)
    ELSE Yields(IF is_process_running(table, pid) THEN pid ELSE NoPid)

\* get_server_pid whose except clause names ValueError only.
get_server_pid_narrow(record, pid, gone, table) ==
    Except(read_record(record, pid, gone, table), {"ValueError"}, NoPid)

\* Lines 75-85, with the PID file as it may be: `except (ValueError,
\* FileNotFoundError): pass` and `return None`.
get_server_pid_with(record, pid, gone, table) ==
    Except(read_record(record, pid, gone, table), {"ValueError", "FileNotFoundError"}, NoPid)

\* get_server_pid()
call_get_server_pid(record, pid, gone) ==
    /\ record = "pid" <=> pid # NoPid
    /\ LET r == get_server_pid_with(record, pid, gone, procs)
       IN  probe' = [Probe("get_server_pid", pid, FALSE)
                       EXCEPT !.record = record, !.gone = gone, !.found = r.value,
                              !.raised = r.raised]
    /\ UNCHANGED <<platform, procs, pidfile, exe, ctl, logdir, logs, mru, lg>>

NextAccess ==
    \/ \E pid \in 1..(MaxPid + 1), tool \in Tools : call_is_process_running(pid, tool)
    \/ \E tool \in Tools : call_find_server_processes(tool)
    \/ \E port \in Ports, tool \in Tools : call_find_pid_by_port(port, tool)
    \/ \E record \in Records, pid \in {NoPid} \cup Pids, gone \in BOOLEAN :
          call_get_server_pid(record, pid, gone)

SpecAccess == InitAccess /\ [][NextAccess]_vars

\* ------------------------------------------------- cmd_logs (lines 424-453)

\* str.upper() on a --level value.
Upper(level) ==
    CASE level = "error" -> "ERROR"
      [] level = "info" -> "INFO"
      [] OTHER -> level

\* entry.get(...) on the value json.loads returned raises AttributeError when
\* the value is not an object.
GetFails(l) == l.json = "other"

\* Lines 510-520, one line of the file: json.loads accepts it and no filter
\* rejects it.
Passes(l, a) ==
    /\ l.json # "invalid"
    /\ (a.level # "none" => l.level = Upper(a.level))
    /\ (a.component # "none" => l.component = a.component)

\* Lines 531-579: print_log_entry raises AttributeError for a line that is JSON
\* but no object, unless --raw prints it as it is; a line json.loads rejects is
\* printed as it is.
PrintFails(l, a) == l.json = "other" /\ ~a.raw

\* seq[-n:] of Python.
PySuffix(seq, n) ==
    LET len == Len(seq)
        from == IF n > 0 THEN NatMax(len - n, 0) ELSE NatMin(-n, len)
    IN  SubSeq(seq, from + 1, len)

\* The items of seq before the first of the positions bad.
Before(seq, bad) ==
    IF bad = {} THEN seq ELSE SubSeq(seq, 1, Min(bad) - 1)

Whole(seq) == [k \in 1..Len(seq) |-> Item(seq[k], "whole")]

\* What a read path leaves behind.
Outcome(emitted, summary, shown, total, crashed) ==
    [emitted |-> emitted, summary |-> summary, shown |-> shown, total |-> total,
     crashed |-> crashed, rc |-> IF crashed = "none" THEN 0 ELSE 1]

\* Lines 500-529.  The first loop collects the lines that pass; entry.get is
\* evaluated only when a filter is given, and then raises on a line that is no
\* object (only JSONDecodeError is caught).  The second loop prints the last
\* `lines` of them.
view_logs(lines, a) ==
    LET n == IF a.lines = 0 THEN DefaultLines ELSE a.lines
        Match(l) == Passes(l, a)
        all_entries == SelectSeq(lines, Match)
        slice == PySuffix(all_entries, n)
        printed == Before(slice, {k \in 1..Len(slice) : PrintFails(slice[k], a)})
    IN  IF (a.level # "none" \/ a.component # "none") /\ \E k \in 1..Len(lines) : GetFails(lines[k])
        THEN Outcome(<<>>, FALSE, 0, 0, "AttributeError")
        ELSE IF Len(printed) < Len(slice)
        THEN Outcome(Whole(printed), FALSE, 0, 0, "AttributeError")
        ELSE Outcome(Whole(printed), TRUE, NatMin(n, Len(all_entries)), Len(all_entries), "none")

\* Lines 489-491: fromisoformat accepts the timestamp and it is not before the
\* cutoff.
InWindow(l, hours) ==
    l.json = "object" /\ l.timestamp \in {"t-1h", "t-3h"} /\ HoursAgo(l.timestamp) <= hours

\* Lines 488-491: the exception that leaves the scan at line l.  entry.get on a
\* value that is no object: AttributeError; `ts >= cutoff` with a timestamp that
\* has no UTC offset: TypeError.  (JSONDecodeError and the ValueError of
\* fromisoformat are caught at line 493.)
ScanError(l) ==
    CASE l.json = "other" -> "AttributeError"
      [] l.json = "object" /\ l.timestamp = "naive" -> "TypeError"
      [] OTHER -> "none"

\* view_logs_by_time with the level and component filters of view_logs.
view_logs_by_time_filtered(lines, hours, a) ==
    LET Recent(l) == InWindow(l, hours) /\ Passes(l, a)
        scanned == Before(lines, {k \in 1..Len(lines) : ScanError(lines[k]) # "none"})
        printed == SelectSeq(scanned, Recent)
    IN  IF Len(scanned) < Len(lines)
        THEN Outcome(Whole(printed), FALSE, 0, 0, ScanError(lines[Len(scanned) + 1]))
        ELSE Outcome(Whole(printed), TRUE, Len(printed), 0, "none")

\* Lines 477-498.
view_logs_by_time(lines, hours, a) ==
    LET Recent(l) == InWindow(l, hours)
        scanned == Before(lines, {k \in 1..Len(lines) : ScanError(lines[k]) # "none"})
        printed == SelectSeq(scanned, Recent)
    IN  IF Len(scanned) < Len(lines)
        THEN Outcome(Whole(printed), FALSE, 0, 0, ScanError(lines[Len(scanned) + 1]))
        ELSE Outcome(Whole(printed), TRUE, Len(printed), 0, "none")

Existing == {f \in LogNames : logs[f].exists}

\* Line 435: sorted(LOGS_DIR.glob("*.jsonl"), reverse=True)[0].
latest_by_name == Max(Existing)

\* The file modified last.
latest_by_mtime == mru[Len(mru)]

\* An error of cmd_logs that is only printed: the command returns 0.
Failed_quietly(a, err) == [LgIdle EXCEPT !.args = a, !.err = err, !.rc = 0]

\* Lines 426-428, 436-438, 442-444: print the error and return 1 with nothing
\* opened.
Failed(a, err) == [LgIdle EXCEPT !.args = a, !.err = err, !.rc = 1]

\* What `for line in f` yields for a file: its lines, the last of which is the
\* head of a line when the writer is in the middle of it; the head of a JSON
\* line is no JSON.
Readable(file) ==
    IF file.open
    THEN Append(SubSeq(file.lines, 1, Len(file.lines) - 1),
                Line("invalid", "absent", "absent", "absent"))
    ELSE file.lines

\* Lines 424-453, with the read path it ends in when that is view_logs or
\* view_logs_by_time; with --tail it goes on in tail_logs.  One invocation is
\* followed: the command reads nothing that an earlier invocation wrote.
cmd_logs(a) ==
    /\ lg = LgIdle
    /\ lg' =
         IF ~logdir THEN Failed(a, "Logs directory doesn't exist")
         ELSE IF a.file = NoFile /\ Existing = {} THEN Failed(a, "No log files found")
         ELSE LET log_file == IF a.file # NoFile THEN a.file ELSE latest_by_name
                  c == [LgIdle EXCEPT !.args = a, !.file = log_file]
              IN  IF ~logs[log_file].exists THEN Failed(a, "Log file not found")
                  ELSE IF a.tail THEN [c EXCEPT !.pc = "tail"]
                  ELSE LET o == IF a.hours # 0
                                THEN view_logs_by_time(Readable(logs[log_file]), a.hours, a)
                                ELSE view_logs(Readable(logs[log_file]), a)
                       IN  [c EXCEPT !.emitted = o.emitted, !.summary = o.summary,
                                     !.shown = o.shown, !.total = o.total,
                                     !.crashed = o.crashed, !.rc = o.rc]
    /\ UNCHANGED <<hostvars, probe, logdir, logs, mru>>

\* No controller command of the process lifecycle, no server.
QuietHost ==
    /\ platform = "Posix"
    /\ procs = [p \in Pids |-> NoProc]
    /\ pidfile = NoPid
    /\ exe = FALSE
    /\ ctl = [i \in Invocations |-> Idle]
    /\ probe = NoProbe

\* The orders in which some of the files may have been modified last.
Orders == {s \in SeqsUpTo(LogNames, MaxFiles) : \A j, k \in 1..Len(s) : s[j] = s[k] => j = k}

\* What devctl logs may be asked on the command line without --tail; --lines is
\* any integer (type=int, line 680), a negative one and 0 included.
ViewArgs ==
    {LogArgs(f, FALSE, h, n, lv, cp, FALSE) :
        f \in {NoFile} \cup LogNames, h \in {0, WindowHours}, n \in {-1, 0, 1, 2},
        lv \in {"none", "error"}, cp \in {"none", "web"}}

\* Any log directory: absent, empty, or holding files of which the one modified
\* last has any content of complete lines.
InitLogs ==
    /\ QuietHost
    /\ logdir \in BOOLEAN
    /\ mru \in IF logdir THEN Orders ELSE {<<>>}
    /\ \E content \in SeqsUpTo(LineKinds, MaxLines) :
         logs = [f \in LogNames |->
                   IF f \notin Range(mru) THEN NoLogFile
                   ELSE IF f = mru[Len(mru)] THEN LogFile(content, FALSE)
                   ELSE LogFile(<<>>, FALSE)]
    /\ lg = LgIdle

NextLogs == \E a \in ViewArgs : cmd_logs(a)

SpecLogs == InitLogs /\ [][NextLogs]_vars

\* ------------------------------------------------- tail_logs (lines 455-475)

\* Lines of the file that are complete (written up to their newline).
Complete(file) == IF file.open THEN Len(file.lines) - 1 ELSE Len(file.lines)

\* Lines 461-463: open the file and seek to its end; when the file ends in the
\* head of a line, the end lies behind that head.
tail_logs_open ==
    /\ lg.pc = "tail"
    /\ LET file == logs[lg.file]
       IN  lg' = [lg EXCEPT !.pc = "tailing",
                            !.pos = Complete(file), !.mid = file.open,
                            !.start = Complete(file), !.startmid = file.open]
    /\ UNCHANGED <<hostvars, probe, logdir, logs, mru>>

\* Lines 466-468, an iteration in which readline returns something: everything
\* from the offset up to and including the next newline, or up to the end of
\* the file when no newline follows (the head of a line being written).  What
\* it returned goes to print_log_entry, which raises AttributeError for a whole
\* line that is JSON but no object; nothing in tail_logs catches that.
\* (An iteration in which readline returns '' sleeps and changes nothing.)
tail_logs_poll ==
    /\ lg.pc = "tailing"
    /\ LET file == logs[lg.file]
           line == file.lines[lg.pos + 1]
           ended == lg.pos + 1 <= Complete(file)
           part == IF ended THEN (IF lg.mid THEN "rest" ELSE "whole") ELSE "head"
       IN  /\ lg.pos < Len(file.lines)
           /\ ended \/ ~lg.mid
           /\ LET c == [lg EXCEPT !.pos = IF ended THEN @ + 1 ELSE @,
                                  !.mid = ~ended]
              IN  lg' = IF part = "whole" /\ PrintFails(line, lg.args)
                        THEN [c EXCEPT !.pc = "done", !.crashed = "AttributeError", !.rc = 1]
                        ELSE [c EXCEPT !.emitted = Append(@, Item(line, part))]
    /\ UNCHANGED <<hostvars, probe, logdir, logs, mru>>

\* Lines 471-475: KeyboardInterrupt in the loop.
tail_logs_interrupt ==
    /\ lg.pc = "tailing"
    /\ lg' = [lg EXCEPT !.pc = "done", !.rc = 0]
    /\ UNCHANGED <<hostvars, probe, logdir, logs, mru>>

\* The files with f modified last.
Touched(f) ==
    LET IsOther(g) == g # f IN Append(SelectSeq(mru, IsOther), f)

Written == LET n[k \in 0..MaxFiles] == IF k = 0 THEN 0 ELSE n[k - 1] + Len(logs[k].lines)
           IN  n[MaxFiles]

\* The writer (the server's logger) appends a line to a log file: in one write,
\* or its head first (a write that ends inside the line).
LogWrite(f, l, whole) ==
    /\ logs[f].exists /\ ~logs[f].open
    /\ Written < MaxLines
    /\ logs' = [logs EXCEPT ![f] = LogFile(Append(@.lines, l), ~whole)]
    /\ mru' = Touched(f)
    /\ UNCHANGED <<hostvars, probe, logdir, lg>>

\* The writer appends the rest of the line and its newline.
LogWriteRest(f) ==
    /\ logs[f].exists /\ logs[f].open
    /\ logs' = [logs EXCEPT ![f].open = FALSE]
    /\ mru' = Touched(f)
    /\ UNCHANGED <<hostvars, probe, logdir, lg>>

\* devctl logs --tail, alone and with --hours and the two filters beside it.
TailArgs ==
    {LogArgs(NoFile, TRUE, 0, DefaultLines, "none", "none", FALSE),
     LogArgs(NoFile, TRUE, WindowHours, DefaultLines, "error", "web", FALSE)}

\* devctl logs with the two filters, without and with --hours.
FilterArgs ==
    {LogArgs(NoFile, FALSE, h, DefaultLines, "error", "web", FALSE) : h \in {0, WindowHours}}

\* A log directory with one empty file, which the server is about to write to.
InitTail ==
    /\ QuietHost
    /\ logdir = TRUE
    /\ logs = [f \in LogNames |-> IF f = 1 THEN LogFile(<<>>, FALSE) ELSE NoLogFile]
    /\ mru = <<1>>
    /\ lg = LgIdle

NextTail ==
    \/ \E a \in TailArgs \cup FilterArgs : cmd_logs(a)
    \/ tail_logs_open
    \/ tail_logs_poll
    \/ tail_logs_interrupt
    \/ \E f \in LogNames, l \in LineKinds, whole \in BOOLEAN : LogWrite(f, l, whole)
    \/ \E f \in LogNames : LogWriteRest(f)

SpecTail == InitTail /\ [][NextTail]_vars

\* ------------------------------------------------ two invocations at a time

\* Two controllers run side by side (two terminals), each one command after
\* another; here they run start and status.
Concurrent == {1, 2}

\* A clean checkout and a host without programs of its own.
InitConc ==
    /\ platform \in Platforms
    /\ procs = [p \in Pids |-> NoProc]
    /\ pidfile = NoPid
    /\ exe = FALSE
    /\ ctl = [i \in Concurrent |-> Idle]
    /\ probe = NoProbe
    /\ NoLogs

\* main, for start (on the default port) and status.
main_conc(i) ==
    /\ ctl[i].pc = "done"
    /\ \/ \E nb \in BOOLEAN : Set(i, Fresh("start", DEFAULT_PORT, nb, "start"))
       \/ Set(i, Fresh("status", NoPort, FALSE, "status"))
    /\ UNCHANGED <<platform, procs, pidfile, exe>>

NextConc ==
    \/ \E i \in DOMAIN ctl : main_conc(i)
    \/ \E i \in DOMAIN ctl : cmd_build(i)
    \/ \E i \in DOMAIN ctl : cmd_start_check(i)
    \/ \E i \in DOMAIN ctl : cmd_start_spawn(i)
    \/ \E i \in DOMAIN ctl : cmd_start_write(i)
    \/ \E i \in DOMAIN ctl : cmd_start_recheck(i)
    \/ \E i \in DOMAIN ctl : cmd_status_check(i)
    \/ \E i \in DOMAIN ctl : cmd_status_find(i)
    \/ \E p \in Pids : ProcExit(p)

SpecConc == InitConc /\ [][NextConc]_vars

\* ================================================================ the claims

\* The tri-state ProcessStatus of the data model: Running when the recorded PID
\* is alive, else Orphan when a spot-web process is alive, else Stopped.
TriState(file, table) ==
    IF file # NoPid /\ Alive(table, file) THEN "Running"
    ELSE IF \E p \in Pids : Alive(table, p) /\ table[p].image = "spot-web" THEN "Orphan"
    ELSE "Stopped"

\* The record names a PID that is not alive.
Stale(file, table) == file # NoPid /\ ~Alive(table, file)

\* Invocation i takes a step.
Stepped(i) == ctl'[i] # ctl[i]

\* Invocation record c called kill_process(p, force).
Signalled(c, p, force) ==
    \E k \in 1..Len(c.sent) : c.sent[k].pid = p /\ c.sent[k].force = force

\* Invocation record c called kill_process on p, in either mode.
Targeted(c, p) == \E k \in 1..Len(c.sent) : c.sent[k].pid = p

\* C1: whenever status without a port returns, the status it printed is the
\* tri-state of the record and the process table of that moment: Running iff
\* the record holds a live PID, else Orphan iff a spot-web process is alive,
\* else Stopped.
C1_StatusTriState ==
    [][\A i \in DOMAIN ctl :
         (ctl[i].cmd = "status" /\ ctl[i].port = NoPort
            /\ ctl[i].pc # "done" /\ ctl'[i].pc = "done")
         => (ctl'[i].rc = 0 /\ ctl'[i].out = TriState(pidfile, procs))]_vars

\* C1 witness: status has reported Orphan over a stale record.
C1_Witness ==
    \E i \in DOMAIN ctl :
        /\ ctl[i].cmd = "status" /\ ctl[i].port = NoPort /\ ctl[i].pc = "done"
        /\ ctl[i].out = "Orphan" /\ ctl[i].read # NoPid

\* Invocation record c is a status, stop or kill without a port whose lookup of
\* the record read a PID and yielded none.
StaleSeen(c) ==
    /\ c.port = NoPort /\ c.read # NoPid
    /\ \/ c.cmd \in {"status", "stop"} /\ c.pid = NoPid
       \/ c.cmd = "kill" /\ c.kpid = NoPid

\* C2: a stale record is treated as an absent one.  When status, stop or kill
\* (without a port) reads a record whose PID is not alive, the lookup yields no
\* PID: status does not print Running and goes on to look for orphans, stop
\* returns 0 at once having sent nothing, kill goes on to the orphan loop
\* without a terminate for the recorded PID; and from then on the call sends
\* no signal to the stale PID and its exit code is 0.
C2_StaleAsAbsent ==
    [][\A i \in DOMAIN ctl :
         /\ (Stepped(i) /\ ctl[i].port = NoPort /\ Stale(pidfile, procs)
               /\ ctl[i].pc \in {"status", "stop", "kill"})
            => /\ ctl'[i].read = pidfile
               /\ ctl'[i].out # "Running"
               /\ ctl'[i].sent = ctl[i].sent
               /\ procs' = procs
               /\ ctl[i].pc = "status"
                    => (ctl'[i].pid = NoPid /\ ctl'[i].pc = "status_find")
               /\ ctl[i].pc = "stop"
                    => (ctl'[i].pid = NoPid /\ ctl'[i].pc = "done" /\ ctl'[i].rc = 0)
               /\ ctl[i].pc = "kill"
                    => (ctl'[i].kpid = NoPid /\ ctl'[i].pc = "kill_find")
         /\ StaleSeen(ctl'[i])
            => /\ ctl'[i].out # "Running"
               /\ ~Targeted(ctl'[i], ctl'[i].read)
               /\ ctl'[i].pc = "done" => ctl'[i].rc = 0]_vars

\* C2 witness: kill has returned after it read a stale record while another
\* spot-web process was there to be swept.
C2_Witness ==
    \E i \in DOMAIN ctl :
        /\ ctl[i].cmd = "kill" /\ ctl[i].port = NoPort /\ ctl[i].pc = "done"
        /\ StaleSeen(ctl[i])
        /\ ctl[i].sent # <<>>

\* C3: start on a running server is one step that changes nothing: the record,
\* the process table and the executable are as before, nothing was built or
\* spawned, no signal was sent, and the command returns 1 with the
\* already-running notice.
C3_StartWhenRunning ==
    [][\A i \in DOMAIN ctl :
         (Stepped(i) /\ ctl[i].pc = "start" /\ TriState(pidfile, procs) = "Running")
         => /\ pidfile' = pidfile /\ procs' = procs /\ exe' = exe
            /\ ctl'[i].pc = "done" /\ ctl'[i].rc = 1
            /\ ~ctl'[i].built /\ ctl'[i].spawned = NoPid
            /\ ctl'[i].sent = ctl[i].sent
            /\ "Server already running" \in ctl'[i].msgs]_vars

\* C3 witness: a start command has been refused, the recorded server alive.
C3_Witness ==
    \E i \in DOMAIN ctl :
        /\ ctl[i].cmd = "start" /\ ctl[i].pc = "done" /\ ctl[i].rc = 1
        /\ "Server already running" \in ctl[i].msgs
        /\ TriState(pidfile, procs) = "Running"

\* C4: when the spawned process is alive at the check after the grace interval,
\* start returns 0 and the record holds exactly the spawned PID, which is
\* alive: the tri-state at that moment is Running.
C4_StartSucceeds ==
    [][\A i \in DOMAIN ctl :
         (Stepped(i) /\ ctl[i].pc = "start_recheck"
            /\ Alive(procs, ctl[i].spawned))
         => /\ ctl'[i].pc = "done" /\ ctl'[i].rc = 0
            /\ pidfile' = ctl[i].spawned /\ pidfile' # NoPid
            /\ Alive(procs', pidfile')
            /\ TriState(pidfile', procs') = "Running"]_vars

\* C4 witness: start from Stopped (no record read, the only spot-web process is
\* the spawned one) has returned 0 and the recorded process is alive.
C4_Witness ==
    \E i \in DOMAIN ctl :
        /\ ctl[i].cmd = "start" /\ ctl[i].pc = "done" /\ ctl[i].rc = 0
        /\ ctl[i].read = NoPid
        /\ pidfile = ctl[i].spawned /\ Alive(procs, pidfile)
        /\ find_server_processes(procs) = {ctl[i].spawned}

\* C5: when the spawned process is dead at the check after the grace interval
\* (it has exited, whether or not its parent has waited for it), start removes
\* the record and returns 1, so that no record names the dead PID.
C5_StartFailedClearsRecord ==
    [][\A i \in DOMAIN ctl :
         (Stepped(i) /\ ctl[i].pc = "start_recheck" /\ ~Alive(procs, ctl[i].spawned))
         => (ctl'[i].pc = "done" /\ ctl'[i].rc = 1 /\ pidfile' = NoPid)]_vars

\* The notice cmd_stop prints when the process outlived the polling loop.
Escalated(c) == "Server didn't stop gracefully, force killing..." \in c.msgs

\* cmd_kill ran to its end without a port (lines 354-361).
KillCompleted(c) ==
    c.port = NoPort /\ c.pc = "done"
      /\ (c.msgs \cap {"Server killed", "No server processes found"}) # {}

\* C6: stop without a port on a running server that is gone at the check after
\* the polling loop removes the record and returns 0; the only signal of the
\* call is the graceful one, and the process is not alive.
C6_StopGraceful ==
    [][\A i \in DOMAIN ctl :
         /\ (Stepped(i) /\ ctl[i].cmd = "stop" /\ ctl[i].port = NoPort
               /\ ctl[i].pc = "stop_final" /\ ~Alive(procs, ctl[i].pid))
            => /\ ctl'[i].pc = "done" /\ ctl'[i].rc = 0
               /\ pidfile' = NoPid
               /\ "Server stopped" \in ctl'[i].msgs
         /\ (ctl'[i].cmd = "stop" /\ ctl'[i].port = NoPort /\ ctl'[i].pc = "done"
               /\ "Server stopped" \in ctl'[i].msgs)
            => /\ ctl'[i].rc = 0
               /\ pidfile' = NoPid
               /\ ctl'[i].sent = <<Signal(ctl'[i].pid, FALSE, TRUE)>>
               /\ ~Alive(procs', ctl'[i].pid)]_vars

\* C6 witness: such a stop has returned; the process had outlived some polls.
C6_Witness ==
    \E i \in DOMAIN ctl :
        /\ ctl[i].cmd = "stop" /\ ctl[i].port = NoPort /\ ctl[i].pc = "done"
        /\ "Server stopped" \in ctl[i].msgs
        /\ ctl[i].n > 0 /\ ctl[i].read = ctl[i].pid

\* C7: when the process is still alive at the check after the RetryBudget
\* polls, stop escalates (to its own forceful terminate with a port, to
\* cmd_kill without); once such a stop has returned, its exit code is 0, the
\* process is not alive, and a forceful terminate was sent to it after the
\* graceful one (unless cmd_kill, looking the record up again, found the
\* process gone already).
C7_StopEscalates ==
    [][\A i \in DOMAIN ctl :
         /\ (Stepped(i) /\ ctl[i].pc = "stop_final"
               /\ Alive(procs, ctl[i].pid))
            => /\ ctl[i].n = RetryBudget
               /\ Escalated(ctl'[i])
               /\ ctl'[i].pc = IF ctl[i].port # NoPort THEN "stop_force" ELSE "kill"
         /\ (ctl'[i].cmd = "stop" /\ ctl'[i].pc = "done" /\ Escalated(ctl'[i]))
            => /\ ctl'[i].rc = 0
               /\ ~Alive(procs', ctl'[i].pid)
               /\ ctl'[i].sent[1] = Signal(ctl'[i].pid, FALSE, TRUE)
               /\ \/ /\ Len(ctl'[i].sent) >= 2
                     /\ ctl'[i].sent[2].pid = ctl'[i].pid /\ ctl'[i].sent[2].force
                  \/ ctl'[i].port = NoPort /\ ctl'[i].kpid = NoPid]_vars

\* C7 witness: a stop without a port has escalated and cmd_kill has killed the
\* recorded process.
C7_Witness ==
    \E i \in DOMAIN ctl :
        /\ ctl[i].cmd = "stop" /\ ctl[i].port = NoPort /\ ctl[i].pc = "done"
        /\ Escalated(ctl[i]) /\ ctl[i].n = RetryBudget
        /\ ctl[i].kpid = ctl[i].pid
        /\ Signalled(ctl[i], ctl[i].pid, TRUE)

C9_KillAlwaysSweeps ==
    \A i \in DOMAIN ctl :
        (ctl[i].cmd = "kill" /\ ctl[i].pc = "done")
        => \A p \in find_server_processes(procs) :
               p # ctl[i].kpid => Signalled(ctl[i], p, TRUE)

\* C9 amended: kill without a port always reaches the orphan loop, with or
\* without a record: it lists the spot-web processes and sends a forceful
\* terminate to every listed PID other than the resolved one before it returns.
\* (With a port it returns before the loop.)
C9_KillNoPortSweeps ==
    [][\A i \in DOMAIN ctl :
         /\ (Stepped(i) /\ ctl[i].port = NoPort /\ ctl[i].pc = "kill")
            => ctl'[i].pc = IF ctl'[i].kpid # NoPid THEN "kill_force" ELSE "kill_find"
         /\ (Stepped(i) /\ ctl[i].pc = "kill_force") => ctl'[i].pc = "kill_find"
         /\ (Stepped(i) /\ ctl[i].pc = "kill_find")
            => /\ ctl'[i].found = {p \in Pids : procs[p].image = "spot-web"}
               /\ ctl'[i].pc = "kill_sweep"
         /\ (ctl'[i].pc = "kill_sweep" \/ KillCompleted(ctl'[i]))
            => \A p \in ctl'[i].found \ ({ctl'[i].kpid} \cup ctl'[i].todo) :
                   Signalled(ctl'[i], p, TRUE)
         /\ KillCompleted(ctl'[i]) => ctl'[i].todo = {}]_vars

\* C9 witness: kill without a port and without a record has swept an orphan.
C9_Witness ==
    \E i \in DOMAIN ctl :
        /\ ctl[i].cmd = "kill" /\ KillCompleted(ctl[i])
        /\ ctl[i].read = NoPid /\ ctl[i].found # {}
        /\ \A p \in ctl[i].found : Signalled(ctl[i], p, TRUE)

\* C10: once kill without a port has returned, the status is Stopped: the
\* record is absent, the PID it had read from the record is not alive, and no
\* spot-web process of its list is alive.
C10_KillEndsStopped ==
    \A i \in DOMAIN ctl :
        (ctl[i].cmd = "kill" /\ ctl[i].port = NoPort /\ ctl[i].pc = "done")
        => /\ pidfile = NoPid
           /\ TriState(pidfile, procs) = "Stopped"
           /\ ctl[i].read # NoPid => ~Alive(procs, ctl[i].read)
           /\ \A p \in ctl[i].found : ~Alive(procs, p)

\* C10 witness: kill from Running, with an orphan beside the recorded server.
C10_Witness ==
    \E i \in DOMAIN ctl :
        /\ ctl[i].cmd = "kill" /\ KillCompleted(ctl[i])
        /\ ctl[i].kpid # NoPid /\ ctl[i].kpid = ctl[i].read
        /\ ctl[i].found # {}
        /\ TriState(pidfile, procs) = "Stopped"

\* C17: a terminate (graceful or forceful) directed at a PID that the process
\* table no longer holds reports success, on both platforms.
C17_TerminateIdempotent ==
    [][\A i \in DOMAIN ctl :
         (Stepped(i) /\ Len(ctl'[i].sent) = Len(ctl[i].sent) + 1)
         => LET s == ctl'[i].sent[Len(ctl'[i].sent)]
            IN  (s.pid \in Pids /\ procs[s.pid].image = "none") => s.ok]_vars

\* C19: restart runs stop, the settle delay and start in that order and returns
\* start's exit code; when stop has stopped the server of the port (it sent a
\* terminate and reported the server stopped or killed) and start then fails
\* without refusing, the stopped server is not alive and no record is left, in
\* particular none that names the stopped server.
C19_RestartFailedLeavesNoRecord ==
    \A i \in DOMAIN ctl :
        (/\ ctl[i].cmd = "restart" /\ ctl[i].pc = "done" /\ ctl[i].rc # 0
         /\ ctl[i].stop_rc = 0 /\ ctl[i].sent # <<>>
         /\ "Server already running" \notin ctl[i].msgs)
        => /\ ~Alive(procs, ctl[i].sent[1].pid)
           /\ pidfile # ctl[i].sent[1].pid

\* C20: once stop with a port has returned 0 after the process it resolved
\* through the port died within the polling loop, no record names that PID.
C20_StopPortClearsRecord ==
    \A i \in DOMAIN ctl :
        (/\ ctl[i].cmd = "stop" /\ ctl[i].port # NoPort
         /\ ctl[i].pc = "done" /\ ctl[i].rc = 0
         /\ "Server stopped" \in ctl[i].msgs)
        => pidfile # ctl[i].pid

\* C18: is_process_running(pid), its external tool at work, returns True
\* exactly when a process with that PID exists: False for a PID without a
\* process, True for every process of the table, one the controller may not
\* signal included.
C18_IsAliveIffExists ==
    (probe.fn = "is_process_running" /\ probe.tool = "ok")
    => (probe.result <=> Exists(procs, probe.pid))

\* The logs command has gone through view_logs (no --tail, no --hours).
Viewed == lg.rc # -1 /\ lg.file # NoFile /\ ~lg.args.tail /\ lg.args.hours = 0

\* The logs command has gone through view_logs_by_time.
ViewedByTime == lg.rc # -1 /\ lg.file # NoFile /\ ~lg.args.tail /\ lg.args.hours # 0

\* A structured record that satisfies the level and the component filter, each
\* when given.
Satisfies(l, a) ==
    /\ l.json = "object"
    /\ (a.level # "none" => l.level = Upper(a.level))
    /\ (a.component # "none" => l.component = a.component)

\* The last n items of seq (all of them when there are fewer).
LastN(seq, n) == SubSeq(seq, Len(seq) - NatMin(n, Len(seq)) + 1, Len(seq))

\* C13: for every log file and every limit >= 1, view returns exactly the last
\* `limit` of the records that satisfy all given filters, in file order, and
\* all of them when fewer than `limit` satisfy the filters.
C13_ViewLastMatching ==
    (Viewed /\ lg.args.lines >= 1)
    => LET Match(l) == Satisfies(l, lg.args)
       IN  /\ lg.crashed = "none"
           /\ lg.emitted = Whole(LastN(SelectSeq(logs[lg.file].lines, Match), lg.args.lines))

\* C14: the time-window view emits exactly the records whose timestamp is not
\* before the cutoff, in file order, skips every record whose timestamp is
\* missing or does not parse without aborting the scan, and reports the number
\* of records it emitted.  (Stated for files whose lines are all JSON objects or
\* not JSON at all.)
C14_ViewByTimeWindow ==
    (ViewedByTime /\ \A k \in 1..Len(logs[lg.file].lines) : logs[lg.file].lines[k].json # "other")
    => LET Recent(l) == l.json = "object" /\ l.timestamp \in {"t-1h", "t-3h"}
                          /\ HoursAgo(l.timestamp) <= lg.args.hours
       IN  /\ lg.crashed = "none"
           /\ lg.emitted = Whole(SelectSeq(logs[lg.file].lines, Recent))
           /\ lg.summary /\ lg.shown = Len(lg.emitted)

\* C15: the file the logs command reads is the named one when a file is named,
\* else the file of the log directory that was modified last.
C15_ActiveFileIsLatestModified ==
    (lg.rc # -1 /\ lg.file # NoFile)
    => lg.file = IF lg.args.file # NoFile THEN lg.args.file ELSE latest_by_mtime

\* The logs command is in tail_logs, past the seek, or has left it.
Tailed == lg.args.tail /\ lg.file # NoFile /\ lg.pc \in {"tailing", "done"}

\* C11: what tail has emitted is, line by line and in order, the lines appended
\* to the file after tail began, each one once and as a line; nothing that was
\* in the file before is emitted.
C11_TailEmitsAppendedLines ==
    Tailed
    => /\ Len(lg.emitted) <= Len(logs[lg.file].lines) - lg.start
       /\ \A k \in 1..Len(lg.emitted) :
              lg.emitted[k] = Item(logs[lg.file].lines[lg.start + k], "whole")

\* C12: tail emits nothing for a line of which only the head is written, and
\* emits the line as one unit when it is complete: every emitted item is a
\* whole line, never a head or a rest.
C12_TailEmitsWholeLinesOnly ==
    Tailed => \A k \in 1..Len(lg.emitted) : lg.emitted[k].part = "whole"

\* C16: nothing guards the record against a second start.  The check of a start
\* passes whenever the record names no live process, whatever another
\* invocation is doing, and the write of a start replaces whatever the record
\* holds by its own PID and terminates nothing: of two servers spawned side by
\* side the record names the one whose start wrote last.
C16_NoMutualExclusion ==
    [][\A i \in DOMAIN ctl :
         /\ (Stepped(i) /\ ctl[i].pc = "start" /\ get_server_pid(pidfile, procs) = NoPid)
            => ctl'[i].pc \in {"start_build", "start_exe"}
         /\ (Stepped(i) /\ ctl[i].pc = "start_write")
            => (pidfile' = ctl[i].spawned /\ procs' = procs)
         /\ (ctl'[i].cmd = "start" => ctl'[i].sent = <<>>)]_vars

\* C16 witness: two starts have both found no record, both spawned and both
\* written; the two servers are alive and the record names one of them.
C16_Witness ==
    \E i, j \in DOMAIN ctl :
        /\ i # j
        /\ \A k \in {i, j} :
              /\ ctl[k].cmd = "start" /\ ctl[k].pc \in {"start_recheck", "done"}
              /\ ctl[k].read = NoPid /\ ctl[k].spawned # NoPid
              /\ Alive(procs, ctl[k].spawned)
              /\ procs[ctl[k].spawned].image = "spot-web"
        /\ ctl[i].spawned # ctl[j].spawned
        /\ pidfile = ctl[j].spawned

\* Nothing for the stop of invocation record c to act on: the port it was given
\* is held by no process, or (without a port) there is no record or the record
\* names no live process.
NothingToStop(c) ==
    IF c.port # NoPort
    THEN \A p \in Pids : ~(Alive(procs, p) /\ procs[p].port = c.port)
    ELSE pidfile = NoPid \/ ~Alive(procs, pidfile)

\* C21: stop (alone or as the first part of restart) with nothing to act on
\* sends no signal, changes no process and returns 0 at once.
C21_StopNothingToDo ==
    [][\A i \in DOMAIN ctl :
         (Stepped(i) /\ ctl[i].pc = "stop" /\ NothingToStop(ctl[i]))
         => /\ ctl'[i].sent = <<>>
            /\ procs' = procs
            /\ ctl[i].cmd = "stop" => (ctl'[i].pc = "done" /\ ctl'[i].rc = 0)
            /\ ctl[i].cmd = "restart" => ctl'[i].stop_rc = 0]_vars

\* C21 witness: stop without a port found a stale record and returned 0 without
\* a signal.
C21_Witness ==
    \E i \in DOMAIN ctl :
        /\ ctl[i].cmd = "stop" /\ ctl[i].port = NoPort /\ ctl[i].pc = "done"
        /\ ctl[i].rc = 0 /\ ctl[i].sent = <<>>
        /\ ctl[i].read # NoPid /\ ctl[i].pid = NoPid
        /\ "Server is not running" \in ctl[i].msgs

\* C22: kill always returns 0: with nothing resolved and no spot-web process
\* listed it prints the no-server-processes notice, and a terminate that failed
\* leaves the exit code at 0.
C22_KillReturnsZero ==
    \A i \in DOMAIN ctl :
        (ctl[i].cmd = "kill" /\ ctl[i].pc = "done")
        => /\ ctl[i].rc = 0
           /\ (ctl[i].port = NoPort /\ ctl[i].kpid = NoPid /\ ctl[i].found = {})
              => "No server processes found" \in ctl[i].msgs

\* C22 witness: kill has returned 0 although one of its terminates failed.
C22_Witness ==
    \E i \in DOMAIN ctl :
        /\ ctl[i].cmd = "kill" /\ ctl[i].pc = "done" /\ ctl[i].rc = 0
        /\ \E k \in 1..Len(ctl[i].sent) : ~ctl[i].sent[k].ok

\* C23: when the build fails, or the executable is missing, start returns 1;
\* up to that point it has spawned nothing and the record is what it was when
\* the command read it.
C23_StartFailsBeforeSpawn ==
    [][\A i \in DOMAIN ctl :
         /\ (Stepped(i) /\ ctl[i].pc = "start_build" /\ "Build failed!" \in ctl'[i].msgs)
            => (ctl'[i].pc = "done" /\ ctl'[i].rc = 1)
         /\ (Stepped(i) /\ ctl[i].pc = "start_exe" /\ ~exe)
            => (ctl'[i].pc = "done" /\ ctl'[i].rc = 1)
         /\ (Stepped(i) /\ ctl[i].pc \in {"start_build", "start_exe"} /\ ctl'[i].pc = "done")
            => /\ procs' = procs /\ pidfile' = pidfile
               /\ ctl'[i].spawned = NoPid /\ pidfile' = ctl'[i].read]_vars

\* C23 witness: a start whose build failed has returned 1, and the (stale)
\* record it had read is still there.
C23_Witness ==
    \E i \in DOMAIN ctl :
        /\ ctl[i].cmd = "start" /\ ctl[i].pc = "done" /\ ctl[i].rc = 1
        /\ "Build failed!" \in ctl[i].msgs
        /\ ctl[i].spawned = NoPid
        /\ pidfile # NoPid /\ pidfile = ctl[i].read

\* C26: no step of status changes the record, the process table or the build,
\* or sends a signal; status returns 0; with a port it reports whether a
\* process holds the port and which, without one the tri-state of the record
\* and the process table as they are.
C26_StatusPureQuery ==
    [][\A i \in DOMAIN ctl :
         (Stepped(i) /\ ctl[i].cmd = "status" /\ ctl[i].pc # "done")
         => /\ pidfile' = pidfile /\ procs' = procs /\ exe' = exe
            /\ ctl'[i].sent = <<>>
            /\ ctl'[i].pc = "done" => ctl'[i].rc = 0
            /\ ctl[i].port # NoPort
               => /\ ctl'[i].pc = "done"
                  /\ ctl'[i].out \in {"PortInUse", "PortFree"}
                  /\ ctl'[i].out = "PortInUse"
                     <=> \E p \in Pids : Alive(procs, p) /\ procs[p].port = ctl[i].port
                  /\ ctl'[i].out = "PortInUse"
                     => (Alive(procs, ctl'[i].pid) /\ procs[ctl'[i].pid].port = ctl[i].port)
            /\ (ctl[i].port = NoPort /\ ctl'[i].pc = "done")
               => ctl'[i].out = TriState(pidfile, procs)]_vars

\* C26 witness: status with a port has reported the port in use while a stale
\* record exists, and the record is still there.
C26_Witness ==
    \E i \in DOMAIN ctl :
        /\ ctl[i].cmd = "status" /\ ctl[i].pc = "done" /\ ctl[i].rc = 0
        /\ ctl[i].port # NoPort /\ ctl[i].out = "PortInUse"
        /\ pidfile # NoPid /\ ~Alive(procs, pidfile)

\* C30: when the process has gone between stop's lookup of the record and the
\* graceful terminate, stop does not end as a failure: if it returns at the
\* terminate, it returns 0 and the record no longer names the PID.
C30_StopRaceSucceeds ==
    [][\A i \in DOMAIN ctl :
         (/\ Stepped(i) /\ ctl[i].cmd = "stop" /\ ctl[i].port = NoPort
          /\ ctl[i].pc = "stop_term" /\ ~Exists(procs, ctl[i].pid))
         => (ctl'[i].pc = "done" => (ctl'[i].rc = 0 /\ pidfile' # ctl[i].pid))]_vars

\* C24: view_logs drops every line that is no structured record (not JSON,
\* empty, or JSON that is no object): the view is not aborted, nothing but
\* records is shown, and the matched total counts the matching records only.
C24_ViewDropsNonRecords ==
    Viewed
    => LET Match(l) == Satisfies(l, lg.args)
       IN  /\ lg.crashed = "none" /\ lg.rc = 0 /\ lg.summary
           /\ \A k \in 1..Len(lg.emitted) : lg.emitted[k].line.json = "object"
           /\ lg.total = Len(SelectSeq(logs[lg.file].lines, Match))

\* C25: a poll of tail that reads a complete line which is no structured
\* record emits the line as it is and leaves tail in its loop.
C25_TailEmitsMalformedVerbatim ==
    [][(/\ lg.pc = "tailing" /\ lg'.pos = lg.pos + 1 /\ ~lg.mid
        /\ logs[lg.file].lines[lg.pos + 1].json # "object")
       => /\ lg'.pc = "tailing"
          /\ lg'.emitted = Append(lg.emitted, Item(logs[lg.file].lines[lg.pos + 1], "whole"))]_vars

\* The logs command has returned without opening a file.
Unread == lg.pc = "done" /\ lg.file = NoFile /\ lg.emitted = <<>> /\ ~lg.summary

\* C27: the logs command returns 1 with nothing read when the log directory is
\* absent, when no file is named and the directory holds no *.jsonl file, and
\* when the named file does not exist.
C27_LogsFailsWithoutReading ==
    lg # LgIdle
    => /\ ~logdir
          => (lg.rc = 1 /\ Unread /\ lg.err = "Logs directory doesn't exist")
       /\ (logdir /\ lg.args.file = NoFile /\ Existing = {})
          => (lg.rc = 1 /\ Unread /\ lg.err = "No log files found")
       /\ (logdir /\ lg.args.file # NoFile /\ ~logs[lg.args.file].exists)
          => (lg.rc = 1 /\ Unread /\ lg.err = "Log file not found")

\* C27 witness: a file was named that does not exist, in a directory that holds
\* another log file.
C27_Witness ==
    /\ lg.rc = 1 /\ lg.err = "Log file not found"
    /\ logdir /\ Existing # {} /\ lg.args.file # NoFile /\ Unread

\* C29: tail leaves its loop only on the interrupt, and then returns 0.
C29_TailEndsOnInterruptOnly ==
    [][(lg.args.tail /\ lg.pc = "tailing" /\ lg'.pc = "done")
       => (lg'.rc = 0 /\ lg'.crashed = "none" /\ lg'.pos = lg.pos /\ lg'.emitted = lg.emitted)]_vars

\* The query behind the recorded call failed: the external tool was missing,
\* exited with an error or printed no PID; for is_process_running on POSIX,
\* which runs no tool, os.kill(pid, 0) raised.
QueryFailed ==
    IF probe.fn = "is_process_running" /\ platform = "Posix"
    THEN os_kill_0(procs, probe.pid).raised # "none"
    ELSE probe.fn # "none" /\ probe.tool # "ok"

\* C28: no call of find_server_processes, find_pid_by_port or
\* is_process_running ends in an exception; when its query failed the call
\* returned the empty list, None, or False; and with the tool at work it
\* returned the tool's answer.
C28_QueryFailureContained ==
    /\ probe.raised = "none"
    /\ QueryFailed
       => /\ probe.fn = "find_server_processes" => probe.pids = {}
          /\ probe.fn = "find_pid_by_port" => probe.found = NoPid
          /\ probe.fn = "is_process_running" => ~probe.result
    /\ probe.tool = "ok"
       => /\ probe.fn = "find_server_processes" => probe.pids = find_server_processes(procs)
          /\ probe.fn = "find_pid_by_port" => probe.found = find_pid_by_port(procs, probe.port)
          /\ probe.fn = "is_process_running" => probe.result = is_process_running(procs, probe.pid)

\* C28 witness: find_pid_by_port returned None for a port a process holds,
\* because the tool is not installed.
C28_Witness ==
    /\ probe.fn = "find_pid_by_port" /\ probe.tool = "missing"
    /\ find_pid_by_port(procs, probe.port) # NoPid
    /\ probe.found = NoPid /\ probe.raised = "none"

\* Invocation record c has sent a forceful terminate.
Forced(c) == \E k \in 1..Len(c.sent) : c.sent[k].force

\* C31: in a stop (alone or inside restart) the first signal is the graceful
\* terminate of the resolved PID; a forceful terminate is sent only after all
\* RetryBudget polls and the check after them found the process running; a
\* poll or final check that finds the process gone is followed by no forceful
\* terminate of the call.
C31_StopSignalOrder ==
    [][\A i \in DOMAIN ctl :
         ctl[i].cmd \in {"stop", "restart"}
         => /\ Len(ctl'[i].sent) >= 1 => ~ctl'[i].sent[1].force
            /\ (Stepped(i) /\ ctl[i].sent = <<>> /\ ctl'[i].sent # <<>>)
               => (Len(ctl'[i].sent) = 1 /\ ctl'[i].sent[1].pid = ctl[i].pid
                     /\ ctl[i].pid # NoPid)
            /\ Forced(ctl'[i])
               => (ctl'[i].n = RetryBudget /\ Escalated(ctl'[i]))
            /\ (Stepped(i) /\ ~Forced(ctl[i]) /\ Forced(ctl'[i]))
               => (Len(ctl[i].sent) >= 1 /\ Escalated(ctl[i]))
            /\ (Stepped(i) /\ ctl[i].pc \in {"stop_poll", "stop_final"}
                  /\ ~is_process_running(procs, ctl[i].pid))
               => ~Forced(ctl'[i])
            /\ (ctl[i].pc = "stop_final" /\ ctl[i].n < RetryBudget)
               => ~is_process_running(procs, ctl[i].pid)]_vars

\* C31 witness: a stop with a port sent the graceful terminate, polled
\* RetryBudget times, and then sent the forceful one.
C31_Witness ==
    \E i \in DOMAIN ctl :
        /\ ctl[i].cmd = "stop" /\ ctl[i].port # NoPort /\ ctl[i].pc = "done"
        /\ ctl[i].n = RetryBudget
        /\ ctl[i].sent = <<Signal(ctl[i].pid, FALSE, TRUE), Signal(ctl[i].pid, TRUE, TRUE)>>

\* No start other than that of invocation i is under way.
OnlyStart(i) ==
    \A j \in DOMAIN ctl \ {i} : ctl[j].cmd # "start" \/ ctl[j].pc = "done"

\* C32: start writes the spawned PID to the record before it sleeps and checks
\* the process only afterwards.  A status of another invocation that looks at
\* the record during the sleep reads the spawned PID, and prints Running if the
\* process is alive; and while no other start is under way, the record is
\* removed during the sleep by nothing but the start's own failing check.
C32_RecordDuringGrace ==
    [][\A i \in DOMAIN ctl :
         /\ (Stepped(i) /\ ctl[i].pc = "start_write")
            => (pidfile' = ctl[i].spawned /\ ctl'[i].pc = "start_recheck" /\ procs' = procs)
         /\ (ctl[i].pc = "start_recheck" /\ pidfile = ctl[i].spawned)
            => \A j \in DOMAIN ctl \ {i} :
                 (Stepped(j) /\ ctl[j].cmd = "status" /\ ctl[j].pc = "status")
                 => /\ ctl'[j].read = ctl[i].spawned
                    /\ pidfile' = pidfile
                    /\ Alive(procs, ctl[i].spawned)
                       => (ctl'[j].pc = "done" /\ ctl'[j].out = "Running"
                             /\ ctl'[j].pid = ctl[i].spawned)
         /\ (ctl[i].pc = "start_recheck" /\ pidfile = ctl[i].spawned /\ OnlyStart(i)
               /\ pidfile' # pidfile)
            => (Stepped(i) /\ ctl'[i].pc = "done" /\ ctl'[i].rc = 1
                  /\ pidfile' = NoPid)]_vars

\* C32 witness: during the sleep of a start another invocation's status has
\* printed Running for the spawned PID.
C32_Witness ==
    \E i, j \in DOMAIN ctl :
        /\ i # j
        /\ ctl[i].cmd = "start" /\ ctl[i].pc = "start_recheck"
        /\ pidfile = ctl[i].spawned
        /\ ctl[j].cmd = "status" /\ ctl[j].pc = "done"
        /\ ctl[j].out = "Running" /\ ctl[j].pid = ctl[i].spawned

\* C33: no step of status, build or clean changes the tri-state status; in
\* particular none of them takes a Running server to Orphan.
C33_QueriesKeepTriState ==
    [][\A i \in DOMAIN ctl :
         (Stepped(i) /\ ctl[i].cmd \in {"status", "build", "clean"} /\ ctl[i].pc # "done")
         => TriState(pidfile', procs') = TriState(pidfile, procs)]_vars

\* The limit view_logs works with: --lines, or the default for --lines 0.
Limit(a) == IF a.lines = 0 THEN DefaultLines ELSE a.lines

\* C34: for every --lines value, when view_logs has gone through a file of
\* records and lines that are no JSON, its summary agrees with what it printed:
\* the first number is the number of records emitted, the second the number of
\* records that passed the filters, and no more than the limit were emitted.
C34_SummaryAgreesWithOutput ==
    (Viewed /\ \A k \in 1..Len(logs[lg.file].lines) : logs[lg.file].lines[k].json # "other")
    => LET Match(l) == Satisfies(l, lg.args)
       IN  /\ lg.summary
           /\ lg.shown = Len(lg.emitted)
           /\ lg.total = Len(SelectSeq(logs[lg.file].lines, Match))
           /\ Len(lg.emitted) <= NatMax(Limit(lg.args), 0)

\* Invocation record c is inside cmd_start.
Starting(c) ==
    c.pc \in {"start", "start_build", "start_exe", "start_write", "start_recheck"}

\* C35: start goes ahead when the status is Orphan; no step of cmd_start sends a
\* signal or ends a live process; the write replaces the record by the new
\* PID; and when start returns 0 with the new server alive, the status is
\* Running, whatever other spot-web process is alive.
C35_StartOverOrphan ==
    [][\A i \in DOMAIN ctl :
         /\ (Stepped(i) /\ ctl[i].pc = "start" /\ TriState(pidfile, procs) = "Orphan")
            => ctl'[i].pc \in {"start_build", "start_exe"}
         /\ (Stepped(i) /\ Starting(ctl[i]))
            => /\ ctl'[i].sent = ctl[i].sent
               /\ \A p \in Pids : Alive(procs, p) => (Alive(procs', p) /\ procs'[p] = procs[p])
         /\ (Stepped(i) /\ ctl[i].pc = "start_write")
            => pidfile' = ctl[i].spawned
         /\ (Stepped(i) /\ ctl[i].pc = "start_recheck" /\ ctl'[i].rc = 0
               /\ Alive(procs, ctl[i].spawned))
            => TriState(pidfile', procs') = "Running"]_vars

\* C35 witness: start has returned 0 with the record naming the new server while
\* an earlier spot-web process is alive beside it.
C35_Witness ==
    \E i \in DOMAIN ctl :
        /\ ctl[i].cmd = "start" /\ ctl[i].pc = "done" /\ ctl[i].rc = 0
        /\ pidfile = ctl[i].spawned /\ Alive(procs, pidfile)
        /\ \E p \in Pids \ {pidfile} : Alive(procs, p) /\ procs[p].image = "spot-web"

\* The PID of the last kill_process call of invocation record c.
LastTarget(c) == c.sent[Len(c.sent)].pid

\* C36: every kill_process call is directed at a PID the same invocation
\* resolved: the PID cmd_stop got from the port or from the record, the PID
\* cmd_kill got from the port or from the record, or a PID of the list
\* find_server_processes returned; a PID taken from the record is the one the
\* lookup read; and status, build, clean and start call kill_process never.
C36_SignalsOnlyResolved ==
    [][\A i \in DOMAIN ctl :
         /\ ctl'[i].cmd \in {"none", "status", "build", "clean", "start"}
            => ctl'[i].sent = <<>>
         /\ (Stepped(i) /\ ctl'[i].sent # ctl[i].sent /\ ctl[i].pc # "done")
            => /\ ctl[i].cmd \in {"stop", "kill", "restart"}
               /\ Len(ctl'[i].sent) = Len(ctl[i].sent) + 1
               /\ LastTarget(ctl'[i]) # NoPid
               /\ \/ /\ ctl[i].pc \in {"stop_term", "stop_force"}
                     /\ LastTarget(ctl'[i]) = ctl[i].pid
                     /\ ctl[i].port = NoPort => ctl[i].pid = ctl[i].read
                  \/ /\ ctl[i].pc \in {"kill_port", "kill_force"}
                     /\ LastTarget(ctl'[i]) = ctl[i].kpid
                     /\ ctl[i].port = NoPort => ctl[i].kpid = ctl[i].read
                  \/ /\ ctl[i].pc = "kill_sweep"
                     /\ LastTarget(ctl'[i]) \in ctl[i].found]_vars

\* C36 witness: kill has terminated the recorded server and then an orphan of
\* the list.
C36_Witness ==
    \E i \in DOMAIN ctl :
        /\ ctl[i].cmd = "kill" /\ ctl[i].pc = "done" /\ Len(ctl[i].sent) = 2
        /\ ctl[i].sent[1].pid = ctl[i].kpid /\ ctl[i].kpid = ctl[i].read
        /\ ctl[i].sent[2].pid \in ctl[i].found \ {ctl[i].kpid}

\* Invocation record c is inside the cmd_stop of a restart.
RestartStopping(c) ==
    c.cmd = "restart" /\ c.pc \in {"stop", "stop_term", "stop_poll", "stop_final", "stop_force"}

\* The record names a live server that does not hold port.
TrackedElsewhere(port) ==
    pidfile # NoPid /\ Alive(procs, pidfile) /\ procs[pidfile].port # port

C38_RecordReadContained ==
    probe.fn = "get_server_pid"
    => /\ probe.raised = "none"
       /\ (probe.record \in {"absent", "garbage"} \/ probe.gone) => probe.found = NoPid
       /\ (probe.record = "pid" /\ ~probe.gone)
          => probe.found = get_server_pid(probe.pid, procs)

\* C38 witness: the file held the PID of a running process and was deleted
\* under the read; the lookup yielded no PID.
C38_Witness ==
    /\ probe.fn = "get_server_pid" /\ probe.record = "pid" /\ probe.gone
    /\ is_process_running(procs, probe.pid)
    /\ probe.found = NoPid /\ probe.raised = "none"

\* C39: the logs command takes one read path: tail_logs whenever --tail is
\* given, else view_logs_by_time when --hours is not 0, else view_logs.  When
\* the path ends without an exception, view_logs has emitted the last records
\* that satisfy the filters, view_logs_by_time every record of the window
\* whatever its level and component; and a poll of tail that reads a complete
\* record emits it whatever its level and component.
C39_OnePathFiltersOnViewOnly ==
    [][/\ (lg = LgIdle /\ lg' # lg /\ lg'.file # NoFile)
          => LET a == lg'.args
                 lines == Readable(logs[lg'.file])
                 Match(l) == Satisfies(l, a)
                 Recent(l) == l.json = "object" /\ l.timestamp \in {"t-1h", "t-3h"}
                                /\ HoursAgo(l.timestamp) <= a.hours
             IN  /\ a.tail => (lg'.pc = "tail" /\ lg'.emitted = <<>> /\ ~lg'.summary)
                 /\ ~a.tail => lg'.pc = "done"
                 /\ (~a.tail /\ a.hours # 0 /\ lg'.crashed = "none")
                    => lg'.emitted = Whole(SelectSeq(lines, Recent))
                 /\ (~a.tail /\ a.hours = 0 /\ lg'.crashed = "none")
                    => lg'.emitted = Whole(LastN(SelectSeq(lines, Match), Limit(a)))
       /\ (/\ lg.pc = "tailing" /\ lg'.pos = lg.pos + 1 /\ ~lg.mid
           /\ logs[lg.file].lines[lg.pos + 1].json = "object")
          => lg'.emitted = Append(lg.emitted, Item(logs[lg.file].lines[lg.pos + 1], "whole"))]_vars

\* C39 witness: tail, asked with --hours and with the filters error and web,
\* has emitted a record that is three hours old, and one that is neither.
C39_Witness ==
    /\ lg.args.tail /\ lg.args.hours # 0 /\ lg.args.level = "error"
    /\ \E k \in 1..Len(lg.emitted) : lg.emitted[k].line.timestamp = "t-3h"
    /\ \E k \in 1..Len(lg.emitted) :
          lg.emitted[k].line.level = "INFO" /\ lg.emitted[k].line.component = "cli"

====
